---- MODULE Spec2Model ----
(***************************************************************************)
(* Stats-refresh queue consumer of velog-dashboard-v2-back-office:         *)
(*   consumer/stats_refresh_consumer.py  StatsRefreshConsumer              *)
(*   consumer/message_handler.py         MessageProcessor / handler        *)
(*   modules/redis/client.py             RedisQueueClient                  *)
(* Redis lists are sequences whose first element is the head (left end):   *)
(* LPUSH prepends, BRPOP takes the last element, LTRIM 0 n-1 keeps the     *)
(* first n elements, LREM 1 removes the first occurrence from the head.    *)
(* A JSON text is a sequence of string tokens.                             *)
(***************************************************************************)
EXTENDS Integers, Sequences, FiniteSets, TLC

VARIABLES
    queue,              \* vd2:queue:stats-refresh (primary list)
    processing,         \* vd2:queue:stats-refresh:processing
    failed,             \* vd2:queue:stats-refresh:failed
    pc,                 \* position of the consumer's main thread
    running,            \* StatsRefreshConsumer.running
    processing_message, \* StatsRefreshConsumer.processing_message
    stats,              \* StatsRefreshConsumer.stats (counters)
    message,            \* the message object being handled
    attempt,            \* loop variable of process_with_retry
    retry_count,        \* local retry_count of process_with_retry
    success,            \* outcome of process_with_retry: none/true/false/raised
    consecutive_errors, \* local of _consume_loop
    now,                \* the clock read by get_local_now()
    closes,             \* number of RedisQueueClient.close() calls
    exit_code,          \* process exit status, -1 while alive
    sd_pc,              \* position of a shutdown() call: idle/waiting
    sd_caller,          \* who runs shutdown(): signal (main thread) or thread
    sd_polls,           \* 0.5 s polls slept by the waiting shutdown()
    faults,             \* Redis list commands that raised so far
    h,                  \* history of the handling of the current/last message
    sd,                 \* history of the last shutdown() that waited
    pushlog,            \* every entry ever LPUSHed to failed, newest first
    redis_client,       \* StatsRefreshConsumer.redis_client: none or client
    \* --- Scraper (scraping/main.py) and the record store ---
    semaphore,          \* value of Scraper.semaphore (free permits)
    max_connections,    \* the size the semaphore was built with
    fetched_posts,      \* the posts fetched for the user, in order
    chunk_i,            \* loop variable i of the chunk loop of process_user
    fetch_task,         \* state of the statistics fetch of each post
    scraper_pc,         \* position of process_user / bulk_insert_posts
    post_rows,          \* table of Post rows
    batch_i,            \* loop variable i of bulk_insert_posts
    runs,               \* calls of bulk_insert_posts begun so far
    ins,                \* history of the bulk_insert_posts calls
    daily,              \* table of PostDailyStatistics rows
    next_id,            \* next primary key of PostDailyStatistics
    today,              \* the date get_local_now().date() returns
    writer,             \* state of each update_daily_statistics call
    writes,             \* update_daily_statistics calls begun so far
    last_done,          \* per (post, date): counts of the call that wrote last
    \* --- the bulk run (scraping/aggregate_target_batch.py) ---
    split_args,         \* the arguments main gives to split_range
    group_ranges,       \* the ranges split_range returned, none yet: <<>>
    worker_users,       \* per worker process started: the users it crawls
    \* --- Scraper.run and the first half of process_user ---
    user_table,         \* table of User rows: the stored token ciphertexts
    users,              \* the list of users run has loaded
    user_i,             \* position of run in that list
    user_pc,            \* position of run / process_user
    chk,                \* what fetch_velog_user_chk returned
    uh,                 \* history of the process_user calls of the run
    \* --- VelogService.get_all_posts ---
    cursor,             \* local cursor of get_all_posts
    all_posts,          \* local all_posts: the ids of the posts collected
    page_pc,            \* position of get_all_posts
    page_log            \* history: cursor and page of each get_posts call

consumer_vars ==
    <<queue, processing, failed, pc, running, processing_message, stats,
      message, attempt, retry_count, success, consecutive_errors, now,
      closes, exit_code, sd_pc, sd_caller, sd_polls, faults, h, sd,
      pushlog, redis_client>>

fetch_vars == <<semaphore, max_connections, chunk_i, fetch_task>>

post_vars == <<post_rows, batch_i, runs, ins>>

stat_vars == <<daily, next_id, today, writer, writes, last_done>>

batch_vars == <<split_args, group_ranges, worker_users>>

user_vars == <<user_table, users, user_i, user_pc, chk, uh>>

page_vars == <<cursor, all_posts, page_pc, page_log>>

run_vars == <<batch_vars, user_vars, page_vars>>

crawl_vars ==
    <<fetch_vars, fetched_posts, scraper_pc, post_vars, stat_vars, run_vars>>

vars == <<consumer_vars, crawl_vars>>

----------------------------------------------------------------------------
(* Program constants and model bounds *)

MAX_RETRIES == 3
RETRY_BACKOFF_BASE == 2
max_consecutive_errors == 5

\* REDIS_MAX_FAILED_QUEUE_SIZE (environment, default 10000), kept small here
MAX_FAILED_QUEUE_SIZE == 1
\* CONSUMER_GRACEFUL_SHUTDOWN_TIMEOUT (environment, default 30 s) counted in
\* 0.5 s polls of the wait loop
GRACEFUL_SHUTDOWN_TIMEOUT == 2
\* longest primary queue at start
MaxQueue == 1
\* RedisErrors raised by list commands (LPUSH, LTRIM, LREM) in one run
MaxFaults == 1
\* largest number that occurs in a JSON text
MaxNum == 12
\* messages waiting in the primary queue in the backlog runs
MaxBacklog == 4
\* chunk_size of process_user (40 in the source), kept small here
chunk_size == 2
\* batch_size of bulk_insert_posts (default 200), kept small here
batch_size == 2
\* largest max_connections a Scraper is built with (default 40)
MaxConnections == 2
\* most posts fetched for one user
MaxPosts == 3
\* crawl cycles of the user in one run
MaxRuns == 2
\* posts of the user in the runs of update_daily_statistics
MaxStatPosts == 1
\* update_daily_statistics calls that can overlap
MaxWriters == 2
\* update_daily_statistics calls in one run
MaxWrites == 2
\* last day of a run (days are numbered from 1)
MaxDay == 2
\* largest view or like count
MaxCount == 2
\* largest group_id of a user in the runs of the bulk refresh
MaxGroup == 6
\* most parts split_range is asked for (main asks for 3)
MaxParts == 3
\* users in the table in the runs of Scraper.run
MaxUsers == 2
\* limit of get_posts: the posts of one page (50 in the source), kept small
PageLimit == 2
\* get_posts calls one get_all_posts call is followed through
MaxPages == 3

----------------------------------------------------------------------------
(* Python dicts: a sequence of <<key, value>> pairs in insertion order *)

Has(d, k) == \E i \in 1..Len(d) : d[i][1] = k

Get(d, k, default) ==
    IF Has(d, k) THEN d[CHOOSE i \in 1..Len(d) : d[i][1] = k][2] ELSE default

Put(d, k, v) ==
    IF Has(d, k)
    THEN [i \in 1..Len(d) |-> IF d[i][1] = k THEN <<k, v>> ELSE d[i]]
    ELSE Append(d, <<k, v>>)

(* A decoded JSON value: an object (dict), a number, or None (null) *)
Dict(d) == [t |-> "dict", d |-> d, n |-> 0]
Num(n)  == [t |-> "num",  d |-> <<>>, n |-> n]
None    == [t |-> "none", d |-> <<>>, n |-> 0]
DecodeError == [t |-> "err", d |-> <<>>, n |-> 0]

IsNumTok(tok) == \E n \in 0..MaxNum : ToString(n) = tok
NumOf(tok) == CHOOSE n \in 0..MaxNum : ToString(n) = tok

RECURSIVE DumpsPairs(_)
DumpsPairs(d) ==
    IF Len(d) = 0 THEN <<>>
    ELSE <<d[1][1], ":", ToString(d[1][2])>>
         \o (IF Len(d) = 1 THEN <<>> ELSE <<",">> \o DumpsPairs(Tail(d)))

(* json.dumps *)
Dumps(v) ==
    CASE v.t = "dict" -> <<"{">> \o DumpsPairs(v.d) \o <<"}">>
      [] v.t = "num"  -> <<ToString(v.n)>>
      [] OTHER        -> <<"null">>

(* the members of a JSON object text between the braces: key : number
   members separated by commas *)
RECURSIVE WellFormed(_)
WellFormed(toks) ==
    \/ Len(toks) = 0
    \/ /\ Len(toks) >= 3
       /\ toks[1] \notin {"{", "}", ":", ",", "\"", "null"}
       /\ toks[2] = ":"
       /\ IsNumTok(toks[3])
       /\ \/ Len(toks) = 3
          \/ /\ Len(toks) >= 7
             /\ toks[4] = ","
             /\ WellFormed(SubSeq(toks, 5, Len(toks)))

RECURSIVE LoadsPairs(_)
LoadsPairs(toks) ==
    IF Len(toks) < 3 THEN <<>>
    ELSE << <<toks[1], NumOf(toks[3])>> >>
         \o (IF Len(toks) <= 4 THEN <<>>
             ELSE LoadsPairs(SubSeq(toks, 5, Len(toks))))

(* json.loads: DecodeError stands for raising json.JSONDecodeError *)
Loads(text) ==
    IF text = <<"null">> THEN None
    ELSE IF Len(text) = 1 /\ IsNumTok(text[1]) THEN Num(NumOf(text[1]))
    ELSE IF /\ Len(text) >= 2 /\ text[1] = "{" /\ text[Len(text)] = "}"
            /\ WellFormed(SubSeq(text, 2, Len(text) - 1))
         THEN Dict(LoadsPairs(SubSeq(text, 2, Len(text) - 1)))
    ELSE DecodeError

(* str(e) of the json.JSONDecodeError raised for an undecodable text *)
DecodeErrorText(text) == "Expecting value"

----------------------------------------------------------------------------
(* Redis list commands *)

LPush(list, e) == <<e>> \o list

LTrim(list, start, stop) ==
    SubSeq(list, start + 1, IF stop + 1 < Len(list) THEN stop + 1 ELSE Len(list))

RECURSIVE LRem1(_, _)
LRem1(list, e) ==
    IF Len(list) = 0 THEN list
    ELSE IF Head(list) = e THEN Tail(list)
    ELSE <<Head(list)>> \o LRem1(Tail(list), e)

(* Outcomes of a client method that issues LPUSH then LTRIM: both succeed,
   LPUSH raises RedisError, or LPUSH succeeds and LTRIM raises RedisError *)
PushOutcomes == {"ok", "lpush_err", "ltrim_err"}
(* Outcomes of a client method that issues one command *)
OpOutcomes == {"ok", "err"}

(* RedisQueueClient.push_to_failed: the failed list it leaves *)
push_to_failed(list, msg, o) ==
    CASE o = "ok"        -> LTrim(LPush(list, Dumps(msg)), 0, MAX_FAILED_QUEUE_SIZE - 1)
      [] o = "ltrim_err" -> LPush(list, Dumps(msg))
      [] OTHER           -> list

(* the DLQ entry of an undecodable payload *)
RawEntry(raw_message, error) ==
    <<"{", "raw_message", ":", "\"">> \o raw_message
    \o <<"\"", ",", "error", ":", error, ",",
         "error_type", ":", "JSONDecodeError", "}">>

(* RedisQueueClient._push_raw_to_failed: the failed list it leaves; a
   RedisError is logged and swallowed *)
push_raw_to_failed(list, raw_message, error, o) ==
    CASE o = "ok"        -> LTrim(LPush(list, RawEntry(raw_message, error)),
                                  0, MAX_FAILED_QUEUE_SIZE - 1)
      [] o = "ltrim_err" -> LPush(list, RawEntry(raw_message, error))
      [] OTHER           -> list

(* RedisQueueClient.push_to_processing / remove_from_processing *)
push_to_processing(list, msg, o) ==
    IF o = "ok" THEN LPush(list, Dumps(msg)) ELSE list

remove_from_processing(list, msg, o) ==
    IF o = "ok" THEN LRem1(list, Dumps(msg)) ELSE list

(* a command outcome that raised RedisError counts against the fault budget *)
Fault(o) == IF o = "ok" THEN 0 ELSE 1

(* history: the entries LPUSHed to the failed list, newest first *)
Logged(log, entry, o) == IF o = "lpush_err" THEN log ELSE <<entry>> \o log

----------------------------------------------------------------------------
(* Payloads an upstream producer may have left in the primary queue *)

PayloadFresh   == <<"{", "userId", ":", "1", "}">>
PayloadRetried == <<"{", "userId", ":", "1", ",", "retryCount", ":", "1", ",",
                    "lastAttemptAt", ":", "0", "}">>
(* a failed-list entry of a message that used up its attempts, put back on
   the primary queue *)
PayloadReplayed == <<"{", "userId", ":", "1", ",", "retryCount", ":", "3", ",",
                     "lastAttemptAt", ":", "0", "}">>
PayloadNoUser  == <<"{", "requestedAt", ":", "0", "}">>
PayloadNotJson == <<"{", "not", "json">>
PayloadNull    == <<"null">>
PayloadNumber  == <<"5">>

Payloads == {PayloadFresh, PayloadRetried, PayloadNoUser, PayloadNotJson,
             PayloadNull, PayloadNumber}

(* an entry left in the failed list by an earlier run *)
OldEntry == <<"{", "userId", ":", "9", ",", "retryCount", ":", "2", ",",
              "lastAttemptAt", ":", "0", "}">>

RECURSIVE SeqsUpTo(_, _)
SeqsUpTo(S, n) ==
    IF n = 0 THEN {<<>>}
    ELSE SeqsUpTo(S, n - 1)
         \cup {Append(q, x) : q \in {p \in SeqsUpTo(S, n - 1) : Len(p) = n - 1}, x \in S}

NoHistory ==
    [raw |-> <<>>, popped |-> None, began |-> FALSE, mirror |-> <<>>,
     procBefore |-> <<>>, failedBefore |-> <<>>, logBefore |-> <<>>,
     statsBefore |-> [processed |-> 0, succeeded |-> 0, failed |-> 0],
     calls |-> 0, sleeps |-> <<>>, outcomes |-> <<>>, result |-> "none",
     lastAt |-> 0, entry |-> <<>>, opsok |-> TRUE, done |-> FALSE,
     inflight |-> FALSE]

NoShutdown == [waited |-> FALSE, flag |-> FALSE, polls |-> 0, returned |-> FALSE,
               noop |-> FALSE]

(* no bulk_insert_posts call made yet *)
NoInsert == [rowsBefore |-> {}, first |-> "none", second |-> "none"]

(* an update_daily_statistics call that is not running *)
IdleWriter == [pc |-> "idle", uuid |-> 0, post |-> 0, view |-> 0, like |-> 0,
               date |-> 0, obj |-> 0, raced |-> FALSE]

Writers == 1..MaxWriters

(* fetch_velog_user_chk not called yet *)
NoCheck == [cookies |-> <<>>, data |-> "none"]

(* the process_user state before any crawl *)
FetchIdle ==
    /\ semaphore = 1
    /\ max_connections = 1
    /\ chunk_i = 0
    /\ fetch_task = <<>>

PostsIdle ==
    /\ post_rows = {}
    /\ batch_i = 0
    /\ runs = 0
    /\ ins = NoInsert

StatsIdle ==
    /\ daily = {}
    /\ next_id = 1
    /\ today = 1
    /\ writer = [w \in Writers |-> IdleWriter]
    /\ writes = 0
    /\ last_done = <<>>

(* no bulk run *)
BatchIdle ==
    /\ split_args = [start |-> 0, end |-> 0, parts |-> 1]
    /\ group_ranges = <<>>
    /\ worker_users = <<>>

(* no Scraper.run *)
UserIdle ==
    /\ user_table = <<>>
    /\ users = <<>>
    /\ user_i = 0
    /\ user_pc = "idle"
    /\ chk = NoCheck
    /\ uh = <<>>

(* no get_all_posts call running *)
PagesIdle ==
    /\ cursor = ""
    /\ all_posts = <<>>
    /\ page_pc = "idle"
    /\ page_log = <<>>

RunIdle == BatchIdle /\ UserIdle /\ PagesIdle

ScraperIdle ==
    /\ RunIdle
    /\ FetchIdle
    /\ PostsIdle
    /\ StatsIdle
    /\ fetched_posts = <<>>
    /\ scraper_pc = "idle"

(* the consumer after __init__, with primary queue q and failed list f *)
InitWith(q, f) ==
    /\ queue = q
    /\ processing = <<>>
    /\ failed = f
    /\ pc = "init"
    /\ running = FALSE
    /\ processing_message = FALSE
    /\ stats = [processed |-> 0, succeeded |-> 0, failed |-> 0]
    /\ message = None
    /\ attempt = 0
    /\ retry_count = 0
    /\ success = "none"
    /\ consecutive_errors = 0
    /\ now = 1
    /\ closes = 0
    /\ exit_code = -1
    /\ sd_pc = "idle"
    /\ sd_caller = "none"
    /\ sd_polls = 0
    /\ faults = 0
    /\ h = NoHistory
    /\ sd = NoShutdown
    /\ pushlog = failed
    /\ redis_client = "none"

Init ==
    /\ ScraperIdle
    /\ \E q \in SeqsUpTo(Payloads, MaxQueue),
          f \in {[i \in 1..n |-> OldEntry] : n \in 0..MAX_FAILED_QUEUE_SIZE} :
           InitWith(q, f)

(* a primary queue of MaxBacklog payloads waiting at start, of every kind
   in turn *)
BacklogKinds == <<PayloadFresh, PayloadNoUser, PayloadNotJson, PayloadNull>>

Backlog ==
    [i \in 1..MaxBacklog |-> BacklogKinds[((MaxBacklog - i) % 4) + 1]]

InitBacklog == ScraperIdle /\ InitWith(Backlog, <<>>)

(* a primary queue holding one message, new or attempted before *)
InitReplay ==
    /\ ScraperIdle
    /\ \E p \in {PayloadFresh, PayloadRetried, PayloadReplayed},
          f \in {[i \in 1..n |-> OldEntry] : n \in 0..MAX_FAILED_QUEUE_SIZE} :
           InitWith(<<p>>, f)

----------------------------------------------------------------------------
(* MessageProcessor.process_with_retry and the handler it calls *)

(* StatsRefreshMessageHandler.process_message: what one invocation can do.
   Without userId it raises ValueError (validation).  With userId the crawl
   returns (ok), raises an exception that is not a ValueError (transient:
   aiohttp.ClientError, KeyError, database errors ...) or raises a ValueError
   subclass (valueerror: json.JSONDecodeError of response.json(),
   UnicodeDecodeError, binascii.Error of a token decode ...); the handler
   re-raises whatever the crawl raised. *)
process_message(msg) ==
    IF ~Has(msg.d, "userId") THEN {"validation"}
    ELSE {"ok", "transient", "valueerror"}

IsValueError_CatchesNothing(o) == FALSE

(* except ValueError: the outcomes that end process_with_retry at once *)
IsValueError(o) == o \in {"validation", "valueerror"}

Stamp_ForgetsBase(msg, rc, att, t) ==
    Dict(Put(Put(msg.d, "retryCount", att), "lastAttemptAt", t))

(* the retry metadata stamped into the message object before an attempt *)
Stamp(msg, rc, att, t) ==
    Dict(Put(Put(msg.d, "retryCount", rc + att), "lastAttemptAt", t))

SleepsAfter_GivesUpEarly(att) == att < MAX_RETRIES - 2

(* if attempt < max_retries - 1: sleep, else give up *)
SleepsAfter(att) == att < MAX_RETRIES - 1

BackoffTime_Linear(att) == RETRY_BACKOFF_BASE * att

(* backoff_time = RETRY_BACKOFF_BASE ** attempt *)
BackoffTime(att) == RETRY_BACKOFF_BASE ^ att

Succeeded_KeepsTrying(o) == FALSE

(* handle_message_sync returned without raising: return True *)
Succeeded(o) == o = "ok"

----------------------------------------------------------------------------
(* StatsRefreshConsumer *)

Live == {"loop", "popped", "retry", "result"}

(* A signal handler runs on the main thread: while its shutdown() waits, the
   interrupted main flow does not advance *)
MainRuns == ~(sd_pc = "waiting" /\ sd_caller = "signal")

IsFatal_OneEarly(n) == n >= max_consecutive_errors - 1

(* if consecutive_errors >= max_consecutive_errors *)
IsFatal(n) == n >= max_consecutive_errors

ExitStatus_AlwaysZero(fatal) == 0

(* the exit status of the process: sys.exit(1) on the fatal paths of start
   and _consume_loop, 0 when main() returns *)
ExitStatus(fatal) == IF fatal THEN 1 ELSE 0

FinallyFlag_Stuck == TRUE

(* finally: self.processing_message = False *)
FinallyFlag == FALSE

Closes_Skipped(client, n) == n

(* the end of shutdown(): if self.redis_client: self.redis_client.close();
   n counts the close() calls *)
Closes(client, n) == IF client # "none" THEN n + 1 ELSE n

ShutdownWaits_OnePollShort(flag, polls) ==
    flag /\ polls < GRACEFUL_SHUTDOWN_TIMEOUT - 1

(* the condition of the wait loop of shutdown() *)
ShutdownWaits(flag, polls) == flag /\ polls < GRACEFUL_SHUTDOWN_TIMEOUT

(* start(): connect to Redis, then enter the loop; a connection failure is
   fatal *)
Start ==
    /\ UNCHANGED crawl_vars
    /\ pc = "init"
    /\ \E connected \in BOOLEAN :
         IF connected
         THEN /\ redis_client' = "client"
              /\ running' = TRUE
              /\ pc' = "loop"
              /\ exit_code' = exit_code
         ELSE /\ redis_client' = redis_client
              /\ running' = running
              /\ pc' = "exited"
              /\ exit_code' = ExitStatus(TRUE)
    /\ UNCHANGED <<queue, processing, failed, processing_message, stats,
                   message, attempt, retry_count, success, consecutive_errors,
                   now, closes, sd_pc, sd_caller, sd_polls, faults, h, sd,
                   pushlog>>

(* while self.running is false: start() returns and the process ends *)
LoopExit ==
    /\ UNCHANGED crawl_vars
    /\ UNCHANGED redis_client
    /\ pc = "loop" /\ MainRuns
    /\ ~running
    /\ pc' = "exited"
    /\ exit_code' = ExitStatus(FALSE)
    /\ UNCHANGED <<queue, processing, failed, running, processing_message,
                   stats, message, attempt, retry_count, success,
                   consecutive_errors, now, closes, sd_pc, sd_caller, sd_polls,
                   faults, h, sd, pushlog>>

(* pop_message on an empty queue: BRPOP times out, None is returned *)
PopTimeout ==
    /\ UNCHANGED crawl_vars
    /\ UNCHANGED redis_client
    /\ pc = "loop" /\ MainRuns /\ running
    /\ queue = <<>>
    /\ consecutive_errors' = 0
    /\ UNCHANGED <<queue, processing, failed, pc, running, processing_message,
                   stats, message, attempt, retry_count, success, now, closes,
                   exit_code, sd_pc, sd_caller, sd_polls, faults, h, sd,
                   pushlog>>

(* pop_message: BRPOP takes the tail of the primary queue and the text
   decodes to a value that is not None; _consume_loop goes on to
   _process_message *)
PopMessage ==
    /\ UNCHANGED crawl_vars
    /\ UNCHANGED redis_client
    /\ pc = "loop" /\ MainRuns /\ running
    /\ queue # <<>>
    /\ LET raw == queue[Len(queue)]
           m   == Loads(raw)
       IN  /\ m.t \in {"dict", "num"}
           /\ queue' = SubSeq(queue, 1, Len(queue) - 1)
           /\ message' = m
           /\ h' = [NoHistory EXCEPT !.raw = raw, !.popped = m]
    /\ consecutive_errors' = 0
    /\ pc' = "popped"
    /\ UNCHANGED <<processing, failed, running, processing_message, stats,
                   attempt, retry_count, success, now, closes, exit_code,
                   sd_pc, sd_caller, sd_polls, faults, sd, pushlog>>

(* pop_message: the popped text decodes to None (JSON null); it is returned
   and _consume_loop takes it for a timeout *)
PopNull ==
    /\ UNCHANGED crawl_vars
    /\ UNCHANGED redis_client
    /\ pc = "loop" /\ MainRuns /\ running
    /\ queue # <<>>
    /\ LET raw == queue[Len(queue)]
       IN  /\ Loads(raw).t = "none"
           /\ queue' = SubSeq(queue, 1, Len(queue) - 1)
           /\ h' = [NoHistory EXCEPT !.raw = raw]
    /\ consecutive_errors' = 0
    /\ UNCHANGED <<processing, failed, pc, running, processing_message, stats,
                   message, attempt, retry_count, success, now, closes,
                   exit_code, sd_pc, sd_caller, sd_polls, faults, sd, pushlog>>

(* pop_message: the popped text is not JSON; _push_raw_to_failed records it
   and None is returned *)
PopMalformed ==
    /\ UNCHANGED crawl_vars
    /\ UNCHANGED redis_client
    /\ pc = "loop" /\ MainRuns /\ running
    /\ queue # <<>>
    /\ LET raw == queue[Len(queue)]
       IN  /\ Loads(raw).t = "err"
           /\ queue' = SubSeq(queue, 1, Len(queue) - 1)
           /\ \E o \in PushOutcomes :
                /\ faults + Fault(o) <= MaxFaults
                /\ faults' = faults + Fault(o)
                /\ failed' = push_raw_to_failed(failed, raw, DecodeErrorText(raw), o)
                /\ pushlog' = Logged(pushlog, RawEntry(raw, DecodeErrorText(raw)), o)
                /\ h' = [NoHistory EXCEPT !.raw = raw, !.failedBefore = failed,
                                          !.logBefore = pushlog,
                                          !.opsok = (o = "ok"),
                                          !.result = "malformed", !.done = TRUE]
    /\ consecutive_errors' = 0
    /\ UNCHANGED <<processing, pc, running, processing_message, stats, message,
                   attempt, retry_count, success, now, closes, exit_code,
                   sd_pc, sd_caller, sd_polls, sd>>

(* pop_message raises RedisError (BRPOP failed, nothing popped): the except
   branch of _consume_loop counts it, shuts down fatally at the fifth in a
   row, otherwise sleeps 2 ** min(consecutive_errors, 5) and loops *)
PopRedisError ==
    /\ UNCHANGED crawl_vars
    /\ UNCHANGED redis_client
    /\ pc = "loop" /\ MainRuns /\ running
    /\ consecutive_errors' = consecutive_errors + 1
    /\ IF IsFatal(consecutive_errors + 1)
       THEN /\ running' = FALSE
            /\ closes' = Closes(redis_client, closes)
            /\ pc' = "exited"
            /\ exit_code' = ExitStatus(TRUE)
       ELSE UNCHANGED <<running, closes, pc, exit_code>>
    /\ UNCHANGED <<queue, processing, failed, processing_message, stats,
                   message, attempt, retry_count, success, now, sd_pc,
                   sd_caller, sd_polls, faults, h, sd, pushlog>>

(* pop_message is left by a KeyboardInterrupt: the loop calls shutdown(),
   which finds no message in flight and closes, and breaks; start() returns *)
KeyboardInterrupt ==
    /\ UNCHANGED crawl_vars
    /\ UNCHANGED redis_client
    /\ pc = "loop" /\ MainRuns /\ running
    /\ running' = FALSE
    /\ closes' = Closes(redis_client, closes)
    /\ pc' = "exited"
    /\ exit_code' = ExitStatus(FALSE)
    /\ UNCHANGED <<queue, processing, failed, processing_message, stats,
                   message, attempt, retry_count, success, consecutive_errors,
                   now, sd_pc, sd_caller, sd_polls, faults, h, sd, pushlog>>

(* _process_message, first part: set the flag, count the message, mirror it
   into the processing list and enter process_with_retry, whose first
   statement message.get(...) raises AttributeError for a non-dict *)
Begin ==
    /\ UNCHANGED crawl_vars
    /\ UNCHANGED redis_client
    /\ pc = "popped" /\ MainRuns
    /\ processing_message' = TRUE
    /\ stats' = [stats EXCEPT !.processed = @ + 1]
    /\ \E o \in OpOutcomes :
         /\ faults + Fault(o) <= MaxFaults
         /\ faults' = faults + Fault(o)
         /\ processing' = push_to_processing(processing, message, o)
         /\ h' = [h EXCEPT !.began = TRUE,
                           !.mirror = IF o = "ok" THEN Dumps(message) ELSE <<>>,
                           !.procBefore = processing,
                           !.failedBefore = failed,
                           !.logBefore = pushlog,
                           !.statsBefore = stats,
                           !.opsok = (o = "ok")]
         /\ IF o = "ok" /\ message.t = "dict"
            THEN /\ pc' = "retry"
                 /\ success' = "none"
                 /\ attempt' = 0
                 /\ retry_count' = Get(message.d, "retryCount", 0)
            ELSE /\ pc' = "result"
                 /\ success' = "raised"
                 /\ UNCHANGED <<attempt, retry_count>>
    /\ UNCHANGED <<queue, failed, running, message, consecutive_errors, now,
                   closes, exit_code, sd_pc, sd_caller, sd_polls, sd,
                   pushlog>>

(* one iteration of the for loop of process_with_retry: stamp the message,
   invoke the handler, which ends with outcome o, then return, or sleep the
   backoff and go on *)
AttemptEnds(o) ==
    /\ UNCHANGED redis_client
    /\ pc = "retry" /\ MainRuns
    /\ message' = Stamp(message, retry_count, attempt, now)
    /\ LET again == /\ ~IsValueError(o)
                    /\ ~Succeeded(o)
                    /\ SleepsAfter(attempt)
       IN  /\ h' = [h EXCEPT !.calls = @ + 1,
                             !.lastAt = now,
                             !.outcomes = Append(@, o),
                             !.sleeps = IF again
                                        THEN Append(@, BackoffTime(attempt))
                                        ELSE @,
                             !.result = IF Succeeded(o) THEN "true"
                                        ELSE IF again THEN "none"
                                        ELSE "false"]
           /\ IF again
              THEN /\ attempt' = attempt + 1
                   /\ UNCHANGED <<pc, success>>
              ELSE /\ pc' = "result"
                   /\ success' = IF Succeeded(o) THEN "true" ELSE "false"
                   /\ UNCHANGED attempt
    /\ now' = now + 1
    /\ UNCHANGED <<queue, processing, failed, running, processing_message,
                   stats, retry_count, consecutive_errors, closes, exit_code,
                   sd_pc, sd_caller, sd_polls, faults, sd, pushlog>>

(* an iteration whose handler invocation is taken as a whole: it ends in
   one of the ways process_message can end *)
Attempt ==
    /\ UNCHANGED crawl_vars
    /\ \E o \in process_message(Stamp(message, retry_count, attempt, now)) :
         AttemptEnds(o)

(* _process_message, second part: the branch on success, the removal from
   the processing list, the except branch with its cleanup, and finally.
   f1, r1 are the outcomes of push_to_failed and remove_from_processing in
   the try body, f2, r2 those of the cleanup in the except branch. *)
Finish ==
    /\ UNCHANGED crawl_vars
    /\ UNCHANGED redis_client
    /\ pc = "result" /\ MainRuns
    /\ \E f1 \in PushOutcomes, r1 \in OpOutcomes,
          f2 \in PushOutcomes, r2 \in OpOutcomes :
         LET entry    == Dumps(message)
             pushes1  == success = "false"
             raised1  == success = "raised" \/ (pushes1 /\ f1 # "ok")
             removes1 == ~raised1
             raised2  == raised1 \/ (removes1 /\ r1 # "ok")
             removes2 == raised2 /\ f2 = "ok"
             stats1   == IF success = "true"
                         THEN [stats EXCEPT !.succeeded = @ + 1]
                         ELSE IF success = "false"
                         THEN [stats EXCEPT !.failed = @ + 1]
                         ELSE stats
             failed1  == IF pushes1 THEN push_to_failed(failed, message, f1)
                         ELSE failed
             log1     == IF pushes1 THEN Logged(pushlog, entry, f1) ELSE pushlog
             proc1    == IF removes1
                         THEN remove_from_processing(processing, message, r1)
                         ELSE processing
             raisedN  == (IF pushes1 THEN Fault(f1) ELSE 0)
                         + (IF removes1 THEN Fault(r1) ELSE 0)
                         + (IF raised2 THEN Fault(f2) ELSE 0)
                         + (IF removes2 THEN Fault(r2) ELSE 0)
         IN  /\ pushes1 \/ f1 = "ok"
             /\ removes1 \/ r1 = "ok"
             /\ raised2 \/ f2 = "ok"
             /\ removes2 \/ r2 = "ok"
             /\ faults + raisedN <= MaxFaults
             /\ faults' = faults + raisedN
             /\ stats' = IF raised2 THEN [stats1 EXCEPT !.failed = @ + 1]
                         ELSE stats1
             /\ failed' = IF raised2 THEN push_to_failed(failed1, message, f2)
                          ELSE failed1
             /\ pushlog' = IF raised2 THEN Logged(log1, entry, f2) ELSE log1
             /\ processing' = IF removes2
                              THEN remove_from_processing(proc1, message, r2)
                              ELSE proc1
             /\ h' = [h EXCEPT !.done = TRUE,
                               !.result = success,
                               !.entry = entry,
                               !.opsok = /\ @
                                         /\ pushes1 => f1 = "ok"
                                         /\ removes1 => r1 = "ok"
                                         /\ raised2 => f2 = "ok"
                                         /\ removes2 => r2 = "ok"]
    /\ processing_message' = FinallyFlag
    /\ pc' = "loop"
    /\ message' = None
    /\ success' = "none"
    /\ attempt' = 0
    /\ retry_count' = 0
    /\ UNCHANGED <<queue, running, consecutive_errors, now, closes, exit_code,
                   sd_pc, sd_caller, sd_polls, sd>>

AlreadyStopped_Never(r) == FALSE

(* the guard of shutdown(): if not self.running: return *)
AlreadyStopped(r) == ~r

(* shutdown(), entered from the signal handler (caller = "signal", on the
   main thread) or from another thread: a no-op when not running; otherwise
   running becomes false, and either the wait loop is entered or the
   connection is closed at once *)
Shutdown(caller) ==
    /\ UNCHANGED crawl_vars
    /\ UNCHANGED redis_client
    /\ pc \in Live
    /\ sd_pc = "idle"
    /\ IF AlreadyStopped(running)
       THEN /\ sd' = [sd EXCEPT !.noop = TRUE]
            /\ UNCHANGED <<running, sd_pc, sd_caller, sd_polls, closes>>
       ELSE /\ running' = FALSE
            /\ IF processing_message
               THEN /\ sd_pc' = "waiting"
                    /\ sd_caller' = caller
                    /\ sd_polls' = 0
                    /\ sd' = [waited |-> TRUE, flag |-> TRUE, polls |-> 0,
                              returned |-> FALSE, noop |-> sd.noop]
                    /\ UNCHANGED closes
               ELSE /\ closes' = Closes(redis_client, closes)
                    /\ sd' = [waited |-> FALSE, flag |-> FALSE, polls |-> 0,
                              returned |-> TRUE, noop |-> sd.noop]
                    /\ UNCHANGED <<sd_pc, sd_caller, sd_polls>>
    /\ UNCHANGED <<queue, processing, failed, pc, processing_message, stats,
                   message, attempt, retry_count, success, consecutive_errors,
                   now, exit_code, faults, h, pushlog>>

Signal == Shutdown("signal")

ShutdownFromThread == Shutdown("thread")

(* the wait loop of shutdown(): time.sleep(0.5) while the condition holds *)
ShutdownSleep ==
    /\ UNCHANGED crawl_vars
    /\ UNCHANGED redis_client
    /\ sd_pc = "waiting" /\ pc # "crashed"
    /\ ShutdownWaits(processing_message, sd_polls)
    /\ sd_polls' = sd_polls + 1
    /\ UNCHANGED <<queue, processing, failed, pc, running, processing_message,
                   stats, message, attempt, retry_count, success,
                   consecutive_errors, now, closes, exit_code, sd_pc, sd_caller,
                   faults, h, sd, pushlog>>

(* the wait loop ends: warn if work is still in flight, close, return *)
ShutdownReturn ==
    /\ UNCHANGED crawl_vars
    /\ UNCHANGED redis_client
    /\ sd_pc = "waiting" /\ pc # "crashed"
    /\ ~ShutdownWaits(processing_message, sd_polls)
    /\ sd_pc' = "idle"
    /\ closes' = Closes(redis_client, closes)
    /\ sd' = [waited |-> TRUE, flag |-> processing_message, polls |-> sd_polls,
              returned |-> TRUE, noop |-> sd.noop]
    /\ UNCHANGED <<queue, processing, failed, pc, running, processing_message,
                   stats, message, attempt, retry_count, success,
                   consecutive_errors, now, exit_code, sd_caller, sd_polls,
                   faults, h, pushlog>>

(* the process is killed (SIGKILL, power loss): memory is gone, the Redis
   lists stay *)
Crash ==
    /\ UNCHANGED crawl_vars
    /\ pc \in Live
    /\ pc' = "crashed"
    /\ running' = FALSE
    /\ processing_message' = FALSE
    /\ stats' = [processed |-> 0, succeeded |-> 0, failed |-> 0]
    /\ message' = None
    /\ attempt' = 0
    /\ retry_count' = 0
    /\ success' = "none"
    /\ consecutive_errors' = 0
    /\ sd_pc' = "idle"
    /\ sd_caller' = "none"
    /\ sd_polls' = 0
    /\ sd' = NoShutdown
    /\ redis_client' = "none"
    /\ h' = [NoHistory EXCEPT !.raw = h.raw, !.began = h.began, !.done = h.done,
                              !.inflight = pc # "loop"]
    /\ UNCHANGED <<queue, processing, failed, now, closes, exit_code, faults,
                   pushlog>>

Next ==
    \/ Start
    \/ LoopExit
    \/ PopTimeout
    \/ PopMessage
    \/ PopNull
    \/ PopMalformed
    \/ PopRedisError
    \/ KeyboardInterrupt
    \/ Begin
    \/ Attempt
    \/ Finish
    \/ Signal
    \/ ShutdownFromThread
    \/ ShutdownSleep
    \/ ShutdownReturn
    \/ Crash

Spec == Init /\ [][Next]_vars

(* the handling of one message, from start() to the end of its bookkeeping *)
NextReplay == Start \/ PopMessage \/ Begin \/ Attempt \/ Finish

SpecReplay == InitReplay /\ [][NextReplay]_vars

(* the consumer started on a backlog of several messages *)
SpecBacklog == InitBacklog /\ [][Next]_vars

----------------------------------------------------------------------------
(* The record store: the tables of Post and PostDailyStatistics rows.  A
   table is a set of rows, each with its primary key. *)

(* the columns of Post (posts/models.py) *)
PostFields == {"id", "post_uuid", "user", "title", "created_at", "updated_at"}

(* the keyword arguments bulk_insert_posts gives to Post(...) *)
PostKwargs == {"post_uuid", "title", "user", "slug", "released_at"}

(* Model.__init__: a keyword that is no field of the model raises TypeError *)
PostInit(kwargs) == IF kwargs \subseteq PostFields THEN "ok" ELSE "TypeError"

(* the primary key the table gives to its next row *)
NextPk(rows) == IF rows = {} THEN 1
                ELSE (CHOOSE k \in {r.pk : r \in rows} :
                        \A r \in rows : r.pk <= k) + 1

(* INSERT of one Post with ON CONFLICT DO NOTHING: post_uuid is unique *)
InsertIgnore(rows, post) ==
    IF \E r \in rows : r.post_uuid = post.id
    THEN rows
    ELSE rows \cup {[pk |-> NextPk(rows), post_uuid |-> post.id,
                     title |-> post.title]}

(* Post.objects.bulk_create(batch, ignore_conflicts=True) *)
RECURSIVE bulk_create(_, _)
bulk_create(rows, batch) ==
    IF batch = <<>> THEN rows
    ELSE bulk_create(InsertIgnore(rows, Head(batch)), Tail(batch))

(* fetched_posts[i : i + n] *)
Slice(posts, i, n) ==
    SubSeq(posts, i + 1, IF i + n < Len(posts) THEN i + n ELSE Len(posts))

(* the posts the remote lists for the user: n posts with distinct ids, and,
   when dup holds, the first one listed once more at the end *)
Fetched(n, dup) ==
    [i \in 1..(IF dup THEN n + 1 ELSE n) |->
        [id    |-> IF i = n + 1 THEN 1 ELSE i,
         title |-> "remote",
         likes |-> (IF i = n + 1 THEN 1 ELSE i) % (MaxCount + 1)]]

FetchedSets ==
    {Fetched(n, FALSE) : n \in 0..MaxPosts}
    \cup {Fetched(n, TRUE) : n \in 1..(MaxPosts - 1)}

(* Post rows an earlier crawl cycle left: the posts with the ids in S *)
OldPosts(S) ==
    {[pk |-> CHOOSE k \in 1..Cardinality(S) :
                Cardinality({j \in S : j <= i}) = k,
      post_uuid |-> i, title |-> "stored"] : i \in S}

(* a statistics response of the remote: None, a payload without a getStats
   object, or a payload whose getStats.total is the number total *)
NoStats == [k |-> "none", total |-> 0]

BadStats == [k |-> "malformed", total |-> 0]

GoodStats(v) == [k |-> "stats", total |-> v]

StatsResults == {NoStats, BadStats} \cup {GoodStats(v) : v \in 1..MaxCount}

(* the responses the remote can give in crawl cycle run: the total grows
   from cycle to cycle *)
StatsNow(run) ==
    {NoStats, BadStats, GoodStats(IF run < MaxCount THEN run ELSE MaxCount)}

(* fetch_post_stats raised instead of returning a response *)
FetchError == [k |-> "raised", total |-> 0]

(* fetch_post_stats(post_id, access_token, refresh_token) in crawl cycle
   run: what one call can do, return a response or fail with an exception *)
fetch_post_stats(run) == StatsNow(run) \cup {FetchError}

(* the checks of update_daily_statistics on the response: truthy dict with a
   data.getStats dict *)
ValidStats(res) == res.k = "stats"

(* Post.objects.get(post_uuid=...): the matching rows (none: DoesNotExist) *)
PostGet(rows, uuid) == {r \in rows : r.post_uuid = uuid}

(* PostDailyStatistics.objects.get(post=..., date=...) *)
DailyGet(rows, post, date) == {r \in rows : r.post = post /\ r.date = date}

CreateDaily_NoConstraint(rows, id, post, date, view, like) ==
    [ok |-> TRUE,
     rows |-> rows \cup {[id |-> id, post |-> post, date |-> date,
                          view |-> view, like |-> like]}]

(* the create of get_or_create with the defaults: INSERT under
   unique_together (post, date); a conflict is an IntegrityError *)
CreateDaily(rows, id, post, date, view, like) ==
    IF DailyGet(rows, post, date) # {}
    THEN [ok |-> FALSE, rows |-> rows]
    ELSE [ok |-> TRUE,
          rows |-> rows \cup {[id |-> id, post |-> post, date |-> date,
                               view |-> view, like |-> like]}]

SaveDaily_Sums(rows, id, view, like) ==
    {IF r.id = id THEN [r EXCEPT !.view = @ + view, !.like = @ + like] ELSE r
       : r \in rows}

(* daily_stats.asave(update_fields=[...]) after the counts were assigned:
   UPDATE of the row with that primary key *)
SaveDaily(rows, id, view, like) ==
    {IF r.id = id THEN [r EXCEPT !.view = view, !.like = like] ELSE r
       : r \in rows}

(* aget_or_create followed by the overwrite when the row existed, run
   without another writer in between *)
Upsert(rows, id, post, date, view, like) ==
    LET found == DailyGet(rows, post, date)
    IN  IF found = {}
        THEN CreateDaily(rows, id, post, date, view, like).rows
        ELSE SaveDaily(rows, (CHOOSE r \in found : TRUE).id, view, like)

----------------------------------------------------------------------------
(* Scraper.update_daily_statistics, called by several workers at once on the
   same record store *)

(* nothing written yet for a (post, date) *)
NoCounts == [view |-> 0, like |-> 0, n |-> 0, raced |-> FALSE]

(* the call that wrote (post uuid, date) last, and how many wrote before *)
Done(ld, w) ==
    [ld EXCEPT ![<<w.uuid, w.date>>] =
        [view |-> w.view, like |-> w.like, n |-> @.n + 1,
         raced |-> @.raced \/ w.raced]]

InitStats ==
    /\ InitWith(<<>>, <<>>)
    /\ RunIdle
    /\ FetchIdle
    /\ fetched_posts = Fetched(MaxStatPosts + 1, FALSE)
    /\ scraper_pc = "idle"
    /\ post_rows = OldPosts(1..MaxStatPosts)
    /\ batch_i = 0
    /\ runs = 0
    /\ ins = NoInsert
    /\ daily = {}
    /\ next_id = 1
    /\ today = 1
    /\ writer = [w \in Writers |-> IdleWriter]
    /\ writes = 0
    /\ last_done = [k \in (1..(MaxStatPosts + 1)) \X (1..MaxDay) |-> NoCounts]

(* update_daily_statistics up to the call of aget_or_create: the checks of
   the response, Post.objects.get (DoesNotExist is logged and the call
   returns), today's date and the two counts *)
UpdBegin(w) ==
    /\ writer[w].pc = "idle"
    /\ writes < MaxWrites
    /\ writes' = writes + 1
    /\ \E i \in 1..Len(fetched_posts), res \in StatsResults :
         LET post  == fetched_posts[i]
             found == PostGet(post_rows, post.id)
         IN  IF ValidStats(res) /\ found # {}
             THEN writer' = [writer EXCEPT ![w] =
                     [pc |-> "get", uuid |-> post.id,
                      post |-> (CHOOSE r \in found : TRUE).pk,
                      view |-> res.total, like |-> post.likes,
                      date |-> today, obj |-> 0, raced |-> FALSE]]
             ELSE UNCHANGED writer
    /\ UNCHANGED <<consumer_vars, run_vars, fetch_vars, fetched_posts, scraper_pc,
                   post_vars, daily, next_id, today, last_done>>

(* get_or_create: the first get *)
UpdGet(w) ==
    /\ writer[w].pc = "get"
    /\ LET found == DailyGet(daily, writer[w].post, writer[w].date)
       IN  writer' = [writer EXCEPT ![w] =
              IF found # {}
              THEN [@ EXCEPT !.pc = "save",
                             !.obj = (CHOOSE r \in found : TRUE).id]
              ELSE [@ EXCEPT !.pc = "create"]]
    /\ UNCHANGED <<consumer_vars, run_vars, fetch_vars, fetched_posts, scraper_pc,
                   post_vars, daily, next_id, today, writes, last_done>>

(* get_or_create: the create after DoesNotExist; created is True and the
   call is over, or IntegrityError sends it to the second get *)
UpdCreate(w) ==
    /\ writer[w].pc = "create"
    /\ LET c == CreateDaily(daily, next_id, writer[w].post, writer[w].date,
                            writer[w].view, writer[w].like)
       IN  IF c.ok
           THEN /\ daily' = c.rows
                /\ next_id' = next_id + 1
                /\ last_done' = Done(last_done, writer[w])
                /\ writer' = [writer EXCEPT ![w] = IdleWriter]
           ELSE /\ writer' = [writer EXCEPT ![w].pc = "reget",
                                            ![w].raced = TRUE]
                /\ UNCHANGED <<daily, next_id, last_done>>
    /\ UNCHANGED <<consumer_vars, run_vars, fetch_vars, fetched_posts, scraper_pc,
                   post_vars, today, writes>>

(* get_or_create: the get after IntegrityError *)
UpdReget(w) ==
    /\ writer[w].pc = "reget"
    /\ LET found == DailyGet(daily, writer[w].post, writer[w].date)
       IN  /\ found # {}
           /\ writer' = [writer EXCEPT ![w].pc = "save",
                              ![w].obj = (CHOOSE r \in found : TRUE).id]
    /\ UNCHANGED <<consumer_vars, run_vars, fetch_vars, fetched_posts, scraper_pc,
                   post_vars, daily, next_id, today, writes, last_done>>

(* if not created: assign the counts and asave *)
UpdSave(w) ==
    /\ writer[w].pc = "save"
    /\ daily' = SaveDaily(daily, writer[w].obj, writer[w].view, writer[w].like)
    /\ last_done' = Done(last_done, writer[w])
    /\ writer' = [writer EXCEPT ![w] = IdleWriter]
    /\ UNCHANGED <<consumer_vars, run_vars, fetch_vars, fetched_posts, scraper_pc,
                   post_vars, next_id, today, writes>>

(* midnight passes *)
DayTick ==
    /\ today < MaxDay
    /\ today' = today + 1
    /\ UNCHANGED <<consumer_vars, run_vars, fetch_vars, fetched_posts, scraper_pc,
                   post_vars, daily, next_id, writer, writes, last_done>>

NextStats ==
    \/ \E w \in Writers : UpdBegin(w)
    \/ \E w \in Writers : UpdGet(w)
    \/ \E w \in Writers : UpdCreate(w)
    \/ \E w \in Writers : UpdReget(w)
    \/ \E w \in Writers : UpdSave(w)
    \/ DayTick

SpecStats == InitStats /\ [][NextStats]_vars

----------------------------------------------------------------------------
(* Scraper.process_user from bulk_insert_posts on: the batched insert of the
   fetched posts, then the chunk loop with the statistics fetches behind the
   semaphore and the upsert of the daily statistics.  A cycle is one call of
   process_user for the user; every cycle builds its own Scraper. *)

(* a statistics fetch that does not exist (yet) *)
NoTask == [st |-> "none", res |-> NoStats, calls |-> 0]

(* the positions of fetched_posts[chunk_i : chunk_i + chunk_size] *)
ChunkOf(i) ==
    (i + 1)..(IF i + chunk_size < Len(fetched_posts)
              THEN i + chunk_size ELSE Len(fetched_posts))

InFlight == {i \in DOMAIN fetch_task : fetch_task[i].st = "inflight"}

CanAcquire_Always(value) == TRUE

(* asyncio.Semaphore.acquire returns at once only while the value is
   positive *)
CanAcquire(value) == value > 0

(* the update_daily_statistics calls of one chunk, in the order of the
   posts: a post whose response is falsy, or malformed, or that has no Post
   row, writes nothing *)
RECURSIVE UpsertChunk(_, _, _)
UpsertChunk(rows, nid, idxs) ==
    IF idxs = <<>> THEN [rows |-> rows, nid |-> nid]
    ELSE LET i     == Head(idxs)
             post  == fetched_posts[i]
             found == PostGet(post_rows, post.id)
         IN  IF ValidStats(fetch_task[i].res) /\ found # {}
             THEN LET pk  == (CHOOSE r \in found : TRUE).pk
                      new == DailyGet(rows, pk, today) = {}
                  IN  UpsertChunk(Upsert(rows, nid, pk, today,
                                         fetch_task[i].res.total, post.likes),
                                  IF new THEN nid + 1 ELSE nid, Tail(idxs))
             ELSE UpsertChunk(rows, nid, Tail(idxs))

InitCrawl ==
    /\ InitWith(<<>>, <<>>)
    /\ RunIdle
    /\ StatsIdle
    /\ max_connections \in 1..MaxConnections
    /\ semaphore = max_connections
    /\ fetched_posts \in FetchedSets
    /\ post_rows \in {OldPosts(S) : S \in {{}, {1}, 1..MaxPosts}}
    /\ chunk_i = 0
    /\ fetch_task = [i \in 1..Len(fetched_posts) |-> NoTask]
    /\ scraper_pc = "idle"
    /\ batch_i = 0
    /\ runs = 0
    /\ ins = [NoInsert EXCEPT !.rowsBefore = post_rows]

(* process_user reaches bulk_insert_posts with the fetched posts, in a
   Scraper built for this cycle *)
CycleStart ==
    /\ scraper_pc \in {"idle", "raised"}
    /\ runs < MaxRuns
    /\ runs' = runs + 1
    /\ semaphore' = max_connections
    /\ chunk_i' = 0
    /\ batch_i' = 0
    /\ fetch_task' = [i \in 1..Len(fetched_posts) |-> NoTask]
    /\ scraper_pc' = "insert"
    /\ UNCHANGED <<consumer_vars, run_vars, max_connections, fetched_posts, post_rows,
                   ins, stat_vars>>

(* the result of the bulk_insert_posts call of this cycle *)
Inserted(res) ==
    IF runs = 1 THEN [ins EXCEPT !.first = res] ELSE [ins EXCEPT !.second = res]

(* bulk_insert_posts, one iteration of the batch loop: build the Post
   objects of the batch and bulk_create them ignoring conflicts; any
   exception is logged and ends the call with False *)
BulkInsertBatch ==
    /\ scraper_pc = "insert"
    /\ batch_i < Len(fetched_posts)
    /\ IF PostInit(PostKwargs) = "ok"
       THEN \E db \in {"ok", "error"} :
              IF db = "ok"
              THEN /\ post_rows' = bulk_create(post_rows,
                                      Slice(fetched_posts, batch_i, batch_size))
                   /\ batch_i' = batch_i + batch_size
                   /\ UNCHANGED <<scraper_pc, ins>>
              ELSE /\ scraper_pc' = "chunk"
                   /\ ins' = Inserted("false")
                   /\ UNCHANGED <<post_rows, batch_i>>
       ELSE /\ scraper_pc' = "chunk"
            /\ ins' = Inserted("false")
            /\ UNCHANGED <<post_rows, batch_i>>
    /\ UNCHANGED <<consumer_vars, run_vars, fetch_vars, fetched_posts, runs, stat_vars>>

(* bulk_insert_posts: the loop is over, return True *)
BulkInsertReturn ==
    /\ scraper_pc = "insert"
    /\ batch_i >= Len(fetched_posts)
    /\ scraper_pc' = "chunk"
    /\ ins' = Inserted("true")
    /\ UNCHANGED <<consumer_vars, run_vars, fetch_vars, fetched_posts, post_rows,
                   batch_i, runs, stat_vars>>

(* the chunk loop: the fetch_post_stats_limited tasks of the next chunk are
   created and gathered *)
ChunkStart ==
    /\ scraper_pc = "chunk"
    /\ chunk_i < Len(fetched_posts)
    /\ fetch_task' = [i \in 1..Len(fetched_posts) |->
                        IF i \in ChunkOf(chunk_i)
                        THEN [st |-> "created", res |-> NoStats, calls |-> 0]
                        ELSE fetch_task[i]]
    /\ scraper_pc' = "gather"
    /\ UNCHANGED <<consumer_vars, run_vars, semaphore, max_connections, chunk_i,
                   fetched_posts, post_vars, stat_vars>>

(* fetch_post_stats_limited: async with self.semaphore is entered and
   fetch_post_stats is called *)
SemaphoreAcquire(i) ==
    /\ scraper_pc = "gather"
    /\ fetch_task[i].st = "created"
    /\ CanAcquire(semaphore)
    /\ semaphore' = semaphore - 1
    /\ fetch_task' = [fetch_task EXCEPT ![i].st = "inflight"]
    /\ UNCHANGED <<consumer_vars, run_vars, max_connections, chunk_i, fetched_posts,
                   scraper_pc, post_vars, stat_vars>>

(* fetch_post_stats_limited, second half: the one call of fetch_post_stats
   returns its response, the semaphore is released and the response is
   returned as it is *)
FetchReturn(i) ==
    /\ scraper_pc = "gather"
    /\ fetch_task[i].st = "inflight"
    /\ semaphore' = semaphore + 1
    /\ \E res \in fetch_post_stats(runs) \ {FetchError} :
         fetch_task' = [fetch_task EXCEPT ![i] =
                          [st |-> "done", res |-> res,
                           calls |-> fetch_task[i].calls + 1]]
    /\ UNCHANGED <<consumer_vars, run_vars, max_connections, chunk_i, fetched_posts,
                   scraper_pc, post_vars, stat_vars>>

(* fetch_post_stats raises: the semaphore is released on the way out of
   async with, fetch_post_stats_limited has no handler, and gather (called
   without return_exceptions) raises the exception in process_user, which
   has no handler either: the cycle ends before any update task of the
   chunk is created, and the fetches still pending end with the loop *)
FetchRaise(i) ==
    /\ scraper_pc = "gather"
    /\ fetch_task[i].st = "inflight"
    /\ FetchError \in fetch_post_stats(runs)
    /\ semaphore' = max_connections
    /\ fetch_task' = [fetch_task EXCEPT ![i] =
                        [st |-> "raised", res |-> FetchError,
                         calls |-> fetch_task[i].calls + 1]]
    /\ scraper_pc' = "raised"
    /\ UNCHANGED <<consumer_vars, run_vars, max_connections, chunk_i, fetched_posts,
                   post_vars, stat_vars>>

(* gather has every response of the chunk: the daily statistics of the posts
   with a response are upserted, then the loop pauses and goes on *)
ChunkEnd ==
    /\ scraper_pc = "gather"
    /\ \A i \in ChunkOf(chunk_i) : fetch_task[i].st = "done"
    /\ LET idxs == [j \in 1..Cardinality(ChunkOf(chunk_i)) |-> chunk_i + j]
           up   == UpsertChunk(daily, next_id, idxs)
       IN  /\ daily' = up.rows
           /\ next_id' = up.nid
    /\ chunk_i' = chunk_i + chunk_size
    /\ fetch_task' = [i \in 1..Len(fetched_posts) |-> NoTask]
    /\ scraper_pc' = "chunk"
    /\ UNCHANGED <<consumer_vars, run_vars, semaphore, max_connections, fetched_posts,
                   post_vars, today, writer, writes, last_done>>

(* the chunk loop is over: process_user returns *)
ProcessUserEnd ==
    /\ scraper_pc = "chunk"
    /\ chunk_i >= Len(fetched_posts)
    /\ scraper_pc' = "idle"
    /\ UNCHANGED <<consumer_vars, run_vars, fetch_vars, fetched_posts, post_vars,
                   stat_vars>>

(* the process is killed during the cycle: the tables stay as they are *)
CrawlCrash ==
    /\ scraper_pc \in {"insert", "chunk", "gather"}
    /\ scraper_pc' = "idle"
    /\ ins' = IF scraper_pc = "insert" THEN Inserted("crashed") ELSE ins
    /\ semaphore' = max_connections
    /\ chunk_i' = 0
    /\ batch_i' = 0
    /\ fetch_task' = [i \in 1..Len(fetched_posts) |-> NoTask]
    /\ UNCHANGED <<consumer_vars, run_vars, max_connections, fetched_posts, post_rows,
                   runs, stat_vars>>

NextCrawl ==
    \/ CycleStart
    \/ BulkInsertBatch
    \/ BulkInsertReturn
    \/ ChunkStart
    \/ \E i \in DOMAIN fetch_task : SemaphoreAcquire(i)
    \/ \E i \in DOMAIN fetch_task : FetchReturn(i)
    \/ \E i \in DOMAIN fetch_task : FetchRaise(i)
    \/ ChunkEnd
    \/ ProcessUserEnd
    \/ CrawlCrash

SpecCrawl == InitCrawl /\ [][NextCrawl]_vars

----------------------------------------------------------------------------
(* Scraper.run and process_user up to the post listing: the decrypt of the
   stored tokens, the identity check, the token reconciliation of
   update_old_tokens and the listing of the posts; the rest of process_user
   is the crawl cycle above, run by the same Scraper. *)

(* a decrypt that failed: wrong key or tampered ciphertext *)
DecryptError == "DecryptError"

(* AESEncryption(key).encrypt(plain): a ciphertext only its key opens *)
encrypt(key, plain) == [key |-> key, plain |-> plain]

(* AESEncryption(key).decrypt(cipher) *)
decrypt(key, cipher) ==
    IF cipher.key = key THEN cipher.plain ELSE DecryptError

(* how a failed decrypt leaves process_user: with an exception, which may or
   may not be a ValueError *)
DecryptRaises == {"transient", "valueerror"}

(* aes_key_index = (user.group_id % 100) % 10 *)
aes_key_index(group_id) == (group_id % 100) % 10

TokenFields == {"access_token", "refresh_token"}

(* a User row; the access token of a tampered row opens with no key *)
UserRow(i, tampered) ==
    [id |-> i, group_id |-> i,
     access_token |-> encrypt(IF tampered THEN -1 ELSE aes_key_index(i), "A0"),
     refresh_token |-> encrypt(aes_key_index(i), "R0")]

UserTables ==
    {[i \in 1..MaxUsers |-> UserRow(i, i \in T)] : T \in SUBSET (1..MaxUsers)}

(* the cookies a response of the identity endpoint can set: none, a new
   access token alone, both tokens new, both as they were, a new access
   token with the old refresh token *)
CookieSets ==
    {<<>>,
     <<<<"access_token", "A1">>>>,
     <<<<"access_token", "A1">>, <<"refresh_token", "R1">>>>,
     <<<<"access_token", "A0">>, <<"refresh_token", "R0">>>>,
     <<<<"access_token", "A1">>, <<"refresh_token", "R0">>>>}

(* the decoded body of that response: a falsy value ({} or None), a dict
   without data.currentUser, data.currentUser null, or a current user *)
UserDatas == {"empty", "nodata", "nouser", "user"}

(* fetch_velog_user_chk: returns (cookies, data), or session.post /
   response.json() raises *)
fetch_velog_user_chk ==
    {[cookies |-> c, data |-> d] : c \in CookieSets, d \in UserDatas}
    \cup {[cookies |-> <<>>, data |-> "raised"]}

(* fetch_all_velog_posts: the posts of the user, or an exception *)
fetch_all_velog_posts ==
    {[posts |-> <<>>, raised |-> FALSE],
     [posts |-> Fetched(1, FALSE), raised |-> FALSE],
     [posts |-> <<>>, raised |-> TRUE]}

(* new_user_cookies[field] != current token; evaluated only when the key is
   there *)
Differs(cookies, field, current) == Get(cookies, field, current) # current

(* the value a function returns whose try block reached `return value` and
   whose finally block is `return False`: the finally wins *)
FinallyReturn(value) == FALSE

(* update_old_tokens(user, aes_encryption, new_user_cookies); db is the
   outcome of user.asave.  A missing key raises KeyError inside the try,
   which is logged; asave writes the update_fields of the user object.
   stored: the User row afterwards, saved: the fields written,
   ret: the value returned. *)
update_old_tokens(user, key, cookies, db) ==
    LET current_access_token  == decrypt(key, user.access_token)
        current_refresh_token == decrypt(key, user.refresh_token)
        key_error == \E f \in TokenFields : ~Has(cookies, f)
        update_fields ==
            {f \in TokenFields :
                Differs(cookies, f,
                        IF f = "access_token" THEN current_access_token
                        ELSE current_refresh_token)}
        after ==
            [user EXCEPT
               !.access_token =
                   IF "access_token" \in update_fields
                   THEN encrypt(key, Get(cookies, "access_token", ""))
                   ELSE @,
               !.refresh_token =
                   IF "refresh_token" \in update_fields
                   THEN encrypt(key, Get(cookies, "refresh_token", ""))
                   ELSE @]
        saves == ~key_error /\ update_fields # {} /\ db = "ok"
    IN  [stored |-> IF saves THEN after ELSE user,
         saved  |-> IF saves THEN update_fields ELSE {},
         asave  |-> ~key_error /\ update_fields # {},
         ret    |-> IF saves THEN FinallyReturn(TRUE) ELSE FALSE]

NoCurrentUser_Ignored(user_data) == FALSE

(* if user_data["data"]["currentUser"] is None: the remote knows no
   authenticated user for the tokens *)
NoCurrentUser(user_data) == user_data = "nouser"

(* history of a process_user call: how it ended, what its
   update_old_tokens call found changed, saved and returned, and the tables
   as the call found them *)
NoCall == [user |-> 0, end |-> "running", exc |-> "none", changed |-> {},
           saved |-> {}, ret |-> "none", db |-> "none",
           before |-> [tokens |-> <<>>, posts |-> {}, daily |-> {}]]

(* process_user returns, and run goes on with the next user *)
UserReturns(kind) ==
    /\ uh' = [uh EXCEPT ![Len(uh)].end = kind]
    /\ user_pc' = "next"

(* process_user raises; run has no handler around it and raises too *)
UserRaises(kind) ==
    /\ uh' = [uh EXCEPT ![Len(uh)].end = "raised", ![Len(uh)].exc = kind]
    /\ user_pc' = "raised"

(* the record store and the Scraper before a run *)
InitStore ==
    /\ BatchIdle /\ PagesIdle
    /\ StatsIdle
    /\ max_connections = MaxConnections
    /\ semaphore = max_connections
    /\ fetched_posts = <<>>
    /\ post_rows = OldPosts({1})
    /\ chunk_i = 0
    /\ fetch_task = <<>>
    /\ scraper_pc = "idle"
    /\ batch_i = 0
    /\ runs = 0
    /\ ins = [NoInsert EXCEPT !.rowsBefore = post_rows]
    /\ users = <<>>
    /\ user_i = 0
    /\ user_pc = "idle"
    /\ chk = NoCheck
    /\ uh = <<>>

InitRun ==
    /\ InitWith(<<>>, <<>>)
    /\ InitStore
    /\ user_table \in UserTables

(* Scraper.run: the users of the group range are loaded and the session is
   opened *)
RunStart ==
    /\ user_pc = "idle"
    /\ users' = [i \in 1..Len(user_table) |-> user_table[i].id]
    /\ user_i' = 0
    /\ user_pc' = "next"
    /\ uh' = <<>>
    /\ UNCHANGED <<consumer_vars, batch_vars, page_vars, fetch_vars, fetched_posts,
                   scraper_pc, post_vars, stat_vars, user_table, chk>>

(* for user in users: process_user(user, session) begins: the key of the
   group is taken and both stored tokens are decrypted; a failed decrypt
   raises *)
ProcessUserBegin ==
    /\ user_pc = "next"
    /\ user_i < Len(users)
    /\ user_i' = user_i + 1
    /\ LET user    == user_table[users[user_i + 1]]
           aes_key == aes_key_index(user.group_id)
           call    == [NoCall EXCEPT
                         !.user = user.id,
                         !.before = [tokens |-> user_table,
                                     posts |-> post_rows, daily |-> daily]]
       IN  IF DecryptError \in {decrypt(aes_key, user.access_token),
                                decrypt(aes_key, user.refresh_token)}
           THEN \E e \in DecryptRaises :
                  /\ uh' = Append(uh, [call EXCEPT !.end = "raised",
                                                   !.exc = e])
                  /\ user_pc' = "raised"
           ELSE /\ uh' = Append(uh, call)
                /\ user_pc' = "check"
    /\ UNCHANGED <<consumer_vars, batch_vars, page_vars, fetch_vars, fetched_posts,
                   scraper_pc, post_vars, stat_vars, user_table, users, chk>>

(* the for loop of run is over: run returns *)
RunReturn ==
    /\ user_pc = "next"
    /\ user_i >= Len(users)
    /\ user_pc' = "returned"
    /\ UNCHANGED <<consumer_vars, batch_vars, page_vars, fetch_vars, fetched_posts,
                   scraper_pc, post_vars, stat_vars, user_table, users,
                   user_i, chk, uh>>

(* process_user: fetch_velog_user_chk and the branches on its result.  With
   both values falsy it returns; user_data["data"]["currentUser"] of a
   falsy or data-less user_data raises (KeyError, TypeError); with
   currentUser None it logs and returns *)
IdentityCheck ==
    /\ user_pc = "check"
    /\ \E res \in fetch_velog_user_chk :
         /\ chk' = res
         /\ CASE res.data = "raised" ->
                   \E e \in {"transient", "valueerror"} : UserRaises(e)
              [] res.data = "empty" /\ res.cookies = <<>> ->
                   UserReturns("nothing")
              [] res.data \in {"empty", "nodata"} /\ res.cookies # <<>> ->
                   UserRaises("transient")
              [] res.data = "nodata" /\ res.cookies = <<>> ->
                   UserRaises("transient")
              [] NoCurrentUser(res.data) ->
                   UserReturns("noidentity")
              [] OTHER ->
                   /\ user_pc' = IF res.cookies # <<>> THEN "tokens"
                                 ELSE "posts"
                   /\ UNCHANGED uh
    /\ UNCHANGED <<consumer_vars, batch_vars, page_vars, fetch_vars, fetched_posts,
                   scraper_pc, post_vars, stat_vars, user_table, users,
                   user_i>>

(* process_user: if new_user_cookies: await self.update_old_tokens(...) *)
Reconcile ==
    /\ user_pc = "tokens"
    /\ LET user    == user_table[uh[Len(uh)].user]
           aes_key == aes_key_index(user.group_id)
           changed == {f \in TokenFields :
                         /\ Has(chk.cookies, f)
                         /\ Get(chk.cookies, f, "")
                              # decrypt(aes_key, user[f])}
       IN  \E db \in {"ok", "error"} :
             LET res == update_old_tokens(user, aes_key, chk.cookies, db)
             IN  /\ db = "error" => res.asave
                 /\ user_table' = [user_table EXCEPT ![user.id] = res.stored]
                 /\ uh' = [uh EXCEPT ![Len(uh)].changed = changed,
                                     ![Len(uh)].saved = res.saved,
                                     ![Len(uh)].db =
                                         IF res.asave THEN db ELSE "none",
                                     ![Len(uh)].ret =
                                         IF res.ret THEN "true" ELSE "false"]
    /\ user_pc' = "posts"
    /\ UNCHANGED <<consumer_vars, batch_vars, page_vars, fetch_vars, fetched_posts,
                   scraper_pc, post_vars, stat_vars, users, user_i, chk>>

(* process_user: fetch_all_velog_posts, then bulk_insert_posts is entered
   with the posts; runs counts the listings up to MaxRuns *)
ListPosts ==
    /\ user_pc = "posts"
    /\ \E out \in fetch_all_velog_posts :
         IF out.raised
         THEN /\ UserRaises("transient")
              /\ UNCHANGED <<fetch_vars, fetched_posts, scraper_pc,
                             post_vars>>
         ELSE /\ fetched_posts' = out.posts
              /\ fetch_task' = [i \in 1..Len(out.posts) |-> NoTask]
              /\ chunk_i' = 0
              /\ batch_i' = 0
              /\ runs' = IF runs < MaxRuns THEN runs + 1 ELSE runs
              /\ scraper_pc' = "insert"
              /\ user_pc' = "crawl"
              /\ UNCHANGED <<semaphore, max_connections, post_rows, ins, uh>>
    /\ UNCHANGED <<consumer_vars, batch_vars, page_vars, stat_vars, user_table, users,
                   user_i, chk>>

(* the crawl cycle of the user is over: process_user returns after the
   chunk loop, or raises what a statistics fetch raised *)
CrawlEnd ==
    /\ user_pc = "crawl"
    /\ scraper_pc \in {"idle", "raised"}
    /\ IF scraper_pc = "idle"
       THEN UserReturns("returned")
       ELSE UserRaises("transient")
    /\ scraper_pc' = "idle"
    /\ UNCHANGED <<consumer_vars, batch_vars, page_vars, fetch_vars, fetched_posts,
                   post_vars, stat_vars, user_table, users, user_i, chk>>

(* one user after the other, each crawled to the end *)
ProcessUser ==
    \/ ProcessUserBegin
    \/ IdentityCheck
    \/ Reconcile
    \/ ListPosts
    \/ BulkInsertBatch
    \/ BulkInsertReturn
    \/ ChunkStart
    \/ \E i \in DOMAIN fetch_task : SemaphoreAcquire(i)
    \/ \E i \in DOMAIN fetch_task : FetchReturn(i)
    \/ \E i \in DOMAIN fetch_task : FetchRaise(i)
    \/ ChunkEnd
    \/ ProcessUserEnd
    \/ CrawlEnd

NextRun == RunStart \/ ProcessUser \/ RunReturn

SpecRun == InitRun /\ [][NextRun]_vars

----------------------------------------------------------------------------
(* The queue path: the consumer pops one stats-refresh message for user 1
   and each attempt of process_with_retry runs the handler, which builds a
   ScraperTargetUser for the user and runs it to the end. *)

(* a refresh request for a user id that has no User row *)
PayloadUnknownUser == <<"{", "userId", ":", "9", "}">>

InitTarget ==
    /\ \E p \in {PayloadFresh, PayloadUnknownUser} : InitWith(<<p>>, <<>>)
    /\ InitStore
    /\ user_table \in UserTables

(* StatsRefreshMessageHandler.process_message up to scraper.run(): a
   ScraperTargetUser with its own semaphore is built for the userId of the
   message and its run loads User.objects.filter(id__in=[user_id]) *)
HandlerCall ==
    /\ pc = "retry" /\ MainRuns
    /\ user_pc = "idle"
    /\ Has(message.d, "userId")
    /\ LET user_id == Get(message.d, "userId", 0)
       IN  users' = SelectSeq([i \in 1..Len(user_table) |-> user_table[i].id],
                              LAMBDA id : id = user_id)
    /\ user_i' = 0
    /\ user_pc' = "next"
    /\ uh' = <<>>
    /\ chk' = NoCheck
    /\ semaphore' = max_connections
    /\ UNCHANGED <<consumer_vars, batch_vars, page_vars, max_connections, chunk_i,
                   fetch_task, fetched_posts, scraper_pc, post_vars,
                   stat_vars, user_table>>

(* scraper.run() is over: process_message returns, or logs and re-raises
   what the run raised, and the iteration of process_with_retry ends *)
HandlerReturn ==
    /\ user_pc \in {"returned", "raised"}
    /\ AttemptEnds(IF user_pc = "returned" THEN "ok" ELSE uh[Len(uh)].exc)
    /\ user_pc' = "idle"
    /\ UNCHANGED <<batch_vars, page_vars, fetch_vars, fetched_posts, scraper_pc,
                   post_vars, stat_vars, user_table, users, user_i, chk, uh>>

NextTarget ==
    \/ Start
    \/ PopMessage
    \/ Begin
    \/ HandlerCall
    \/ ProcessUser
    \/ RunReturn
    \/ HandlerReturn
    \/ Finish

SpecTarget == InitTarget /\ [][NextTarget]_vars

----------------------------------------------------------------------------
(* scraping/aggregate_target_batch.py: the bulk refresh splits the span of
   group ids with split_range and starts one worker process per range; a
   worker runs Scraper(group_range).run(), which crawls the users whose
   group_id is in its range.  There is one user per group id here. *)

(* range(a, b) as the set of its members *)
PyRange(a, b) == {x \in a..(b - 1) : TRUE}

(* split_range(start, end, parts); // is the floor division, as \div *)
split_range(start, end, parts) ==
    LET width      == end - start
        part_width == width \div parts
    IN  [k \in 1..parts |->
            LET i          == k - 1
                part_start == start + (i * part_width)
                part_end   == IF i < parts - 1
                              THEN start + ((i + 1) * part_width)
                              ELSE end
            IN  PyRange(part_start, part_end + 1)]

(* User.objects.filter(group_id__in=self.group_range) *)
UsersIn(group_range) == {g \in 0..MaxGroup : g \in group_range}

InitSplit ==
    /\ InitWith(<<>>, <<>>)
    /\ UserIdle /\ PagesIdle
    /\ FetchIdle
    /\ PostsIdle
    /\ StatsIdle
    /\ fetched_posts = <<>>
    /\ scraper_pc = "idle"
    /\ split_args \in [start : 0..MaxGroup, end : 0..MaxGroup,
                        parts : 1..MaxParts]
    /\ group_ranges = <<>>
    /\ worker_users = <<>>

(* main: group_ranges = split_range(first group id, last group id, parts) *)
SplitRange ==
    /\ group_ranges = <<>>
    /\ group_ranges' = split_range(split_args.start, split_args.end,
                                   split_args.parts)
    /\ UNCHANGED <<consumer_vars, fetch_vars, fetched_posts, scraper_pc,
                   post_vars, stat_vars, user_vars, page_vars, split_args, worker_users>>

(* main: the next process is started; its Scraper loads the users of its
   range *)
WorkerStart ==
    /\ Len(worker_users) < Len(group_ranges)
    /\ worker_users' =
          Append(worker_users, UsersIn(group_ranges[Len(worker_users) + 1]))
    /\ UNCHANGED <<consumer_vars, fetch_vars, fetched_posts, scraper_pc,
                   post_vars, stat_vars, user_vars, page_vars, split_args, group_ranges>>

NextSplit == SplitRange \/ WorkerStart

SpecSplit == InitSplit /\ [][NextSplit]_vars

----------------------------------------------------------------------------
(* VelogService.get_all_posts (scraping/velog/service.py and the older
   scraping/velog/services.py, whose loops are the same) *)

(* the post objects the remote can put into the "posts" list of a
   response: one with an id, one without *)
RemotePosts == {[id |-> "p1"], [url_slug |-> "s"]}

(* what execute_query can return: a dict with a "posts" list of at most
   limit entries, a dict without that key, or the empty dict *)
Responses ==
    {[kind |-> "posts", posts |-> ps] : ps \in SeqsUpTo(RemotePosts, PageLimit)}
    \cup {[kind |-> "noposts", posts |-> <<>>], [kind |-> "empty", posts |-> <<>>]}

(* get_posts: [] unless the response has "posts"; otherwise one Post per
   entry, its id defaulting to "" *)
get_posts(response) ==
    IF response.kind # "posts" THEN <<>>
    ELSE [i \in 1..Len(response.posts) |->
            [id |-> IF "id" \in DOMAIN response.posts[i]
                    THEN response.posts[i].id ELSE ""]]

NextCursor_FirstPost(posts) == posts[1].id

(* cursor = posts[-1].id *)
NextCursor(posts) == posts[Len(posts)].id

InitPages ==
    /\ InitWith(<<>>, <<>>)
    /\ BatchIdle /\ UserIdle /\ PagesIdle
    /\ FetchIdle
    /\ PostsIdle
    /\ StatsIdle
    /\ fetched_posts = <<>>
    /\ scraper_pc = "idle"

(* get_all_posts is called: cursor = "", all_posts = [] *)
GetAllPosts ==
    /\ page_pc = "idle"
    /\ cursor' = ""
    /\ all_posts' = <<>>
    /\ page_pc' = "loop"
    /\ UNCHANGED <<consumer_vars, fetch_vars, fetched_posts, scraper_pc,
                   post_vars, stat_vars, batch_vars, user_vars, page_log>>

(* one iteration of the while loop: get_posts(username, cursor) returns a
   page; an empty page breaks, otherwise the page is appended and the
   cursor moves to the id of its last post (hasattr(posts[-1], "id") is
   the test of the else branch that breaks) *)
PageStep ==
    /\ page_pc = "loop"
    /\ Len(page_log) < MaxPages
    /\ \E response \in Responses :
         LET posts == get_posts(response)
         IN  /\ page_log' = Append(page_log, [cursor |-> cursor, page |-> posts])
             /\ IF posts = <<>>
                THEN /\ page_pc' = "returned"
                     /\ UNCHANGED <<cursor, all_posts>>
                ELSE /\ all_posts' = all_posts \o posts
                     /\ IF "id" \in DOMAIN posts[Len(posts)]
                        THEN /\ cursor' = NextCursor(posts)
                             /\ page_pc' = "loop"
                        ELSE /\ page_pc' = "returned"
                             /\ UNCHANGED cursor
    /\ UNCHANGED <<consumer_vars, fetch_vars, fetched_posts, scraper_pc,
                   post_vars, stat_vars, batch_vars, user_vars>>

(* execute_query raises VelogError or VelogApiError inside get_posts: it
   leaves get_all_posts *)
PageRaises ==
    /\ page_pc = "loop"
    /\ Len(page_log) < MaxPages
    /\ page_pc' = "raised"
    /\ UNCHANGED <<consumer_vars, fetch_vars, fetched_posts, scraper_pc,
                   post_vars, stat_vars, batch_vars, user_vars, cursor,
                   all_posts, page_log>>

NextPages == GetAllPosts \/ PageStep \/ PageRaises

SpecPages == InitPages /\ [][NextPages]_vars

----------------------------------------------------------------------------
(* Properties *)

Range(q) == {q[i] : i \in 1..Len(q)}

Handled == h.began /\ h.done /\ pc # "crashed"

Returned == h.result \in {"true", "false"} /\ pc # "crashed"

AllTransient == \A i \in 1..Len(h.outcomes) : h.outcomes[i] = "transient"

(* a dict without the retry metadata keys *)
Strip(d) == SelectSeq(d, LAMBDA kv : kv[1] \notin {"retryCount", "lastAttemptAt"})

(* C1: once _process_message has returned and every queue operation of the
   handling succeeded, the processing list no longer holds the mirrored copy
   pushed for the message: it is what it was before the push. *)
C1_MirrorRemoved ==
    (Handled /\ h.opsok) => processing = h.procBefore

(* C2: when every handler invocation raised a transient error and
   process_with_retry has returned, the handler was invoked MAX_RETRIES
   times, MAX_RETRIES - 1 sleeps happened and the result is False. *)
C2_RetryBound ==
    (Returned /\ AllTransient)
        => /\ h.calls = MAX_RETRIES
           /\ Len(h.sleeps) = MAX_RETRIES - 1
           /\ h.result = "false"

C2_Witness ==
    /\ pc = "result"
    /\ h.outcomes = <<"transient", "transient", "transient">>
    /\ h.result = "false"

(* C3: for a message object without userId, process_with_retry invokes the
   handler once, sleeps never and returns False. *)
C3_NoRetryOnValidation ==
    (Returned /\ h.popped.t = "dict" /\ ~Has(h.popped.d, "userId"))
        => /\ h.calls = 1
           /\ h.sleeps = <<>>
           /\ h.result = "false"

C3_Witness ==
    /\ pc = "result"
    /\ h.raw = PayloadNoUser
    /\ h.outcomes = <<"validation">>
    /\ success = "false"

(* C4: for a message with userId, process_with_retry returns False only
   after MAX_RETRIES attempts, whatever the crawl raised. *)
C4_EveryCrawlFailureRetried ==
    (Returned /\ h.result = "false" /\ Has(h.popped.d, "userId"))
        => h.calls = MAX_RETRIES

(* C5: when process_with_retry returned False, _process_message has pushed
   the message to the failed list, failed went up by exactly one and
   succeeded is unchanged. *)
C5_FailureRouted ==
    (Handled /\ h.result = "false")
        => /\ pushlog # h.logBefore
           /\ Head(pushlog) = h.entry
           /\ stats.failed = h.statsBefore.failed + 1
           /\ stats.succeeded = h.statsBefore.succeeded

(* C6: the failed list never holds more than MAX_FAILED_QUEUE_SIZE entries,
   and they are the most recently pushed ones. *)
C6_FailedListCapped ==
    /\ Len(failed) <= MAX_FAILED_QUEUE_SIZE
    /\ failed = SubSeq(pushlog, 1, Len(failed))

(* C7: after pop_message met an undecodable payload, the payload is off the
   primary queue, the failed list has gained exactly one entry holding the
   raw text, the parse error and error_type JSONDecodeError, and the consumer
   is back at the loop with nothing to handle. *)
C7_MalformedToDLQ ==
    (h.result = "malformed" /\ pc # "crashed")
        => /\ h.raw \notin Range(queue)
           /\ pushlog = <<RawEntry(h.raw, DecodeErrorText(h.raw))>> \o h.logBefore
           /\ Head(failed) = RawEntry(h.raw, DecodeErrorText(h.raw))
           /\ pc \in {"loop", "exited"}

(* C8 as stated: the entry pushed to the failed list for a message whose
   process_with_retry returned False decodes to the message as it was
   popped (looked at where every queue command of the handling succeeded). *)
C8_EntryEqualsPopped ==
    (Handled /\ h.result = "false" /\ h.opsok /\ pushlog # h.logBefore)
        => Loads(Head(pushlog)) = h.popped

(* C8 amended: every entry _process_message pushes to the failed list is the
   serialized message object as the orchestrator left it.  It decodes to the
   popped message when no attempt was made; otherwise it agrees with the
   popped message on every field other than retryCount and lastAttemptAt,
   which hold the popped retryCount (0 if absent) plus the index of the last
   attempt, and the time of the last attempt. *)
C8_EntryIsStampedMessage ==
    (Handled /\ pushlog # h.logBefore)
        => LET e == Loads(Head(pushlog))
           IN  IF h.calls = 0 THEN e = h.popped
               ELSE /\ e.t = "dict"
                    /\ Strip(e.d) = Strip(h.popped.d)
                    /\ Has(e.d, "retryCount")
                    /\ Get(e.d, "retryCount", 0)
                         = Get(h.popped.d, "retryCount", 0) + h.calls - 1
                    /\ Has(e.d, "lastAttemptAt")
                    /\ Get(e.d, "lastAttemptAt", 0) = h.lastAt

C8_Witness ==
    /\ Handled
    /\ h.raw = PayloadRetried
    /\ h.result = "false"
    /\ h.calls = MAX_RETRIES
    /\ Head(failed) = h.entry

(* C9: when the process dies while a popped message object is being
   handled, the message is still in the primary queue or in the processing
   list. *)
C9_CrashKeepsMessage ==
    (pc = "crashed" /\ h.inflight /\ Loads(h.raw).t = "dict")
        => h.raw \in Range(queue) \cup Range(processing)

(* C10: a shutdown() that finds running and processing_message true sets
   running to false in its first step and enters the wait loop; the wait
   loop is left only when processing_message is false or the timeout has
   elapsed; running stays false while it waits. *)
C10_ShutdownBlocks ==
    [][/\ (running /\ processing_message /\ ~running' /\ pc' # "crashed")
            => sd_pc' = "waiting"
       /\ (sd_pc' = "waiting") => ~running'
       /\ (sd_pc = "waiting" /\ sd_pc' = "idle" /\ pc' # "crashed")
            => (~processing_message \/ sd_polls >= GRACEFUL_SHUTDOWN_TIMEOUT)
      ]_vars

C10_Witness ==
    /\ sd.waited /\ sd.returned
    /\ sd.flag
    /\ sd.polls = GRACEFUL_SHUTDOWN_TIMEOUT
    /\ ~running

----------------------------------------------------------------------------
(* the fields of the consumer and the Redis lists *)
consumer_fields ==
    <<running, processing_message, stats, redis_client, closes, queue,
      processing, failed>>

(* C11: a shutdown() call that finds running false changes no field and
   performs no queue operation, close included; over any sequence of
   shutdown calls and signals the connection is closed at most once *)
C11_ShutdownIdempotent ==
    [][ /\ (sd.noop' /\ ~sd.noop) => UNCHANGED consumer_fields
        /\ (~running /\ sd_pc = "idle") => closes' = closes
        /\ closes' <= 1 ]_vars

(* a shutdown() call arrived after an earlier one had stopped the consumer
   and closed the connection *)
C11_Witness == sd.noop /\ sd.returned /\ closes = 1 /\ ~running

(* the process has ended: start() has returned or called sys.exit, and no
   shutdown() call is still running *)
Ended == pc = "exited" /\ sd_pc = "idle"

(* C12: however the consumer stops once it holds a queue client (signal,
   keyboard interrupt, fatal consecutive errors, drain wait timed out), the
   connection has been closed when the process ends *)
C12_ClosedOnExit == (Ended /\ redis_client # "none") => closes >= 1

(* the process ended after a shutdown whose drain wait timed out with the
   message still in flight *)
C12_Witness ==
    /\ Ended /\ redis_client = "client" /\ closes = 1
    /\ sd.waited /\ sd.flag /\ sd.polls = GRACEFUL_SHUTDOWN_TIMEOUT

(* a step in which the loop ends the process with sys.exit(1) *)
FatalStep == pc = "loop" /\ pc' = "exited" /\ exit_code' = 1

(* C13: the loop shuts down fatally exactly when the fifth loop-level error
   in a row occurs; a pop that returns resets the counter to zero, and with
   fewer than five errors in a row the consumer keeps running *)
C13_FatalAtFive ==
    [][ /\ FatalStep <=> /\ pc = "loop"
                         /\ consecutive_errors' = consecutive_errors + 1
                         /\ consecutive_errors' = max_consecutive_errors
        /\ (queue' # queue) => consecutive_errors' = 0
        /\ (pc = "loop" /\ consecutive_errors' # consecutive_errors)
              => consecutive_errors' \in {0, consecutive_errors + 1}
        /\ (pc' \in Live) => consecutive_errors' < max_consecutive_errors ]_vars

(* the fifth pop error in a row ended the process *)
C13_Witness ==
    /\ pc = "exited" /\ exit_code = 1 /\ redis_client = "client"
    /\ consecutive_errors = max_consecutive_errors /\ closes = 1

(* C14: an exception raised while a popped message is handled (by the
   handler, by the orchestrator or by the queue bookkeeping) increments the
   consecutive-error counter of the loop *)
C14_HandlingErrorCounted ==
    (Handled /\ (h.result \in {"false", "raised"} \/ ~h.opsok))
        => consecutive_errors >= 1

(* C16: exit status 1 when the connection could not be made or after five
   consecutive loop errors, exit status 0 after a graceful shutdown *)
C16_ExitStatus ==
    pc = "exited" =>
        /\ exit_code \in {0, 1}
        /\ exit_code = 1 <=> \/ redis_client = "none"
                             \/ consecutive_errors >= max_consecutive_errors
        /\ exit_code = 0 => ~running /\ closes + (IF sd_pc = "waiting" THEN 1 ELSE 0) = 1

(* the process ended with status 0 after a signal stopped it *)
C16_Witness ==
    /\ pc = "exited" /\ exit_code = 0 /\ sd.returned /\ closes = 1
    /\ consecutive_errors < max_consecutive_errors

(* C17: for a message whose crawl succeeds on the first attempt the counters
   end at processed = 1, succeeded = 1, failed = 0 and the failed list gains
   no entry *)
C17_HappyPathCounters ==
    (/\ Handled /\ h.outcomes = <<"ok">>
     /\ h.statsBefore = [processed |-> 0, succeeded |-> 0, failed |-> 0])
        => /\ stats = [processed |-> 1, succeeded |-> 1, failed |-> 0]
           /\ pushlog = h.logBefore
           /\ failed = h.failedBefore

(* C15: messages are handled one at a time and in pop order: nothing is
   popped while processing_message is true, and the flag is true only from
   the start of _process_message of the message popped last until its
   retries, sleeps and queue bookkeeping are over *)
C15_OneAtATime ==
    [][ /\ (queue' # queue) => /\ ~processing_message
                               /\ ~processing_message'
                               /\ pc = "loop"
                               /\ queue' = SubSeq(queue, 1, Len(queue) - 1)
                               /\ h'.raw = queue[Len(queue)]
        /\ processing_message' => /\ pc' \in {"retry", "result"}
                                  /\ h'.began /\ ~h'.done
                                  /\ h'.raw = h.raw ]_vars

(* the second message of the backlog was popped after the first had been
   handled through all its steps *)
C15_Witness ==
    /\ pc = "retry" /\ processing_message /\ stats.processed = 2
    /\ h.raw = PayloadNoUser /\ h.statsBefore.failed + h.statsBefore.succeeded = 1

(* the PostDailyStatistics rows of the post with that uuid on that date *)
RowsOf(uuid, date) ==
    {r \in daily : r.date = date
                   /\ \E p \in post_rows : p.pk = r.post /\ p.post_uuid = uuid}

(* C19: whatever update_daily_statistics calls were made for a post on a
   date, one after another or overlapping, there is exactly one row for
   (post, date) and it carries the counts of the call that wrote last, not
   a sum *)
C19_OneRowLastWrite ==
    /\ \A r1, r2 \in daily :
          (r1.post = r2.post /\ r1.date = r2.date) => r1 = r2
    /\ \A k \in DOMAIN last_done :
          IF last_done[k].n = 0
          THEN RowsOf(k[1], k[2]) = {}
          ELSE /\ Cardinality(RowsOf(k[1], k[2])) = 1
               /\ \A r \in RowsOf(k[1], k[2]) :
                     /\ r.view = last_done[k].view
                     /\ r.like = last_done[k].like

(* two overlapping calls raced on the creation of the row of one day and a
   later call overwrote the counts *)
C19_Witness ==
    \E k \in DOMAIN last_done :
        /\ last_done[k].n = 2 /\ last_done[k].raced
        /\ \E r \in RowsOf(k[1], k[2]) : r.view = MaxCount /\ r.id = 1

(* C18: with a semaphore of size N no more than N post-statistics fetches
   are in flight at any moment of a crawl, however many posts there are *)
C18_BoundedFetches ==
    /\ Cardinality(InFlight) <= max_connections
    /\ semaphore >= 0

(* the semaphore is exhausted while a further fetch of the chunk waits *)
C18_Witness ==
    /\ Cardinality(InFlight) = max_connections
    /\ semaphore = 0
    /\ Len(fetched_posts) > max_connections
    /\ \E i \in DOMAIN fetch_task : fetch_task[i].st = "created"

(* both bulk_insert_posts calls on the fetched set are over *)
InsertedTwice ==
    /\ runs = 2 /\ scraper_pc # "insert"
    /\ ins.first # "none" /\ ins.second \in {"true", "false"}

(* C20: after bulk_insert_posts ran twice on the same fetched posts, the
   first run possibly stopped between batches, there is exactly one Post row
   for every distinct post_uuid, and no row that existed before the second
   run has changed *)
C20_InsertIdempotent ==
    InsertedTwice =>
        /\ \A i \in 1..Len(fetched_posts) :
              Cardinality(PostGet(post_rows, fetched_posts[i].id)) = 1
        /\ ins.rowsBefore \subseteq post_rows

(* C21: within one crawl of a user, when the gather of a chunk ends (with
   every response, or because one fetch raised), every post of the chunk
   that got a valid statistics response and has a Post row has its daily
   statistic of today written with the total of that response. *)
C21_SiblingPostsUpserted ==
    [][ (scraper_pc = "gather" /\ scraper_pc' \in {"chunk", "raised"})
          => \A i \in ChunkOf(chunk_i) :
               (/\ fetch_task'[i].st = "done"
                /\ ValidStats(fetch_task'[i].res)
                /\ PostGet(post_rows, fetched_posts[i].id) # {})
                 => \E p \in PostGet(post_rows, fetched_posts[i].id),
                       r \in daily' :
                         /\ r.post = p.pk
                         /\ r.date = today
                         /\ r.view = fetch_task'[i].res.total ]_vars

(* C28: a statistics fetch that fetch_post_stats_limited has returned with
   no result was tried three times, and one returned with a result at most
   three times. *)
C28_FetchRepeated ==
    \A i \in DOMAIN fetch_task :
        fetch_task[i].st = "done"
            => /\ fetch_task[i].calls <= 3
               /\ fetch_task[i].res = NoStats => fetch_task[i].calls = 3

(* C26: the ranges split_range returned are pairwise disjoint, and no user
   is in the crawl of two workers of the bulk run. *)
C26_RangesDisjoint ==
    /\ \A i, j \in DOMAIN group_ranges :
          i # j => group_ranges[i] \cap group_ranges[j] = {}
    /\ \A i, j \in DOMAIN worker_users :
          i # j => worker_users[i] \cap worker_users[j] = {}

(* C29: when the first k handler invocations of process_with_retry failed
   with a transient error and invocation k+1 succeeded (k < MAX_RETRIES),
   the handler was invoked k+1 times, k sleeps happened and the result is
   True. *)
C29_StopsAtFirstSuccess ==
    \A k \in 0..(MAX_RETRIES - 1) :
        (/\ Len(h.outcomes) > k
         /\ h.outcomes[k + 1] = "ok"
         /\ \A i \in 1..k : h.outcomes[i] = "transient")
            => /\ h.calls = k + 1
               /\ Len(h.outcomes) = k + 1
               /\ Len(h.sleeps) = k
               /\ h.result = "true"
               /\ pc # "retry"

C29_Witness ==
    /\ pc = "result"
    /\ h.outcomes = <<"transient", "ok">>
    /\ h.calls = 2
    /\ success = "true"

(* C30: the i-th sleep of process_with_retry, the one after failed attempt
   number i - 1, lasts RETRY_BACKOFF_BASE^(i - 1) seconds (1, then 2), and
   when process_with_retry has returned every attempt but the last was
   followed by a sleep and the last by none. *)
C30_BackoffSleeps ==
    /\ \A i \in 1..Len(h.sleeps) : h.sleeps[i] = RETRY_BACKOFF_BASE ^ (i - 1)
    /\ SubSeq(<<1, 2>>, 1, Len(h.sleeps)) = h.sleeps
    /\ Len(h.sleeps) <= MAX_RETRIES - 1
    /\ (h.calls > 0 /\ pc # "retry") => Len(h.sleeps) = h.calls - 1
    /\ (h.calls > 0 /\ pc = "retry") => Len(h.sleeps) = h.calls

C30_Witness ==
    /\ pc = "result"
    /\ h.sleeps = <<1, 2>>
    /\ h.outcomes = <<"transient", "transient", "ok">>

(* the process_user calls of the run that have ended *)
Calls == DOMAIN uh

RunOver == user_pc \in {"returned", "raised"}

(* C22: when a run over several users is over, every user of the batch was
   processed, also the users after one whose processing raised, and the run
   did not end with that exception. *)
C22_LaterUsersProcessed ==
    RunOver => /\ user_pc = "returned"
               /\ \A i \in DOMAIN users :
                     \E j \in Calls : uh[j].user = users[i]

(* C23: a stored token changes only in the update_old_tokens step of a
   process_user call whose identity check returned a current user, and only
   for the user of that call; after a call whose check reported no identity
   the stored tokens of its user are the ones the run began with. *)
C23_WriteAfterVerify ==
    [][ /\ \A i \in DOMAIN user_table :
              user_table'[i] # user_table[i]
                  => /\ user_pc = "tokens"
                     /\ chk.data = "user"
                     /\ uh[Len(uh)].user = i
                     /\ uh[Len(uh)].end = "running"
        /\ \A j \in DOMAIN uh' :
              uh'[j].end \in {"noidentity", "nothing"}
                  => /\ uh'[j].saved = {}
                     /\ user_table'[uh'[j].user] = UserRow(uh'[j].user, FALSE)
      ]_vars

C23_Witness ==
    \E j \in Calls :
        /\ uh[j].saved = TokenFields
        /\ user_table[uh[j].user].access_token.plain = "A1"
        /\ user_table[uh[j].user].refresh_token.plain = "R1"
        /\ \E k \in Calls : uh[k].end = "noidentity"

(* C24: an update_old_tokens call whose save did not fail has saved exactly
   the token fields for which the remote returned a value that differs from
   the decrypted stored one. *)
C24_SavesChangedFields ==
    \A j \in Calls :
        (uh[j].ret # "none" /\ uh[j].db # "error")
            => uh[j].saved = uh[j].changed

(* C27: an update_old_tokens call that saved a changed token returned
   True. *)
C27_ReturnsTrueOnSave ==
    \A j \in Calls : uh[j].saved # {} => uh[j].ret = "true"

(* the last crawl of the handled message ended at the identity check, which
   reported no authenticated user *)
NoIdentity ==
    /\ uh # <<>>
    /\ uh[Len(uh)].end = "noidentity"

(* C25: when the identity check of a crawl reported no authenticated user,
   the crawl returned with the User, Post and daily statistics tables as it
   found them, and once the message is handled it was counted as succeeded
   and not as failed, no attempt followed and nothing was pushed to the
   failed list. *)
C25_NoIdentityIsSuccess ==
    NoIdentity
        => /\ user_table = uh[Len(uh)].before.tokens
           /\ post_rows = uh[Len(uh)].before.posts
           /\ daily = uh[Len(uh)].before.daily
           /\ user_pc \in {"next", "returned", "idle"}
           /\ Handled
                => /\ h.outcomes[Len(h.outcomes)] = "ok"
                   /\ h.result = "true"
                   /\ stats.succeeded = h.statsBefore.succeeded + 1
                   /\ stats.failed = h.statsBefore.failed
                   /\ pushlog = h.logBefore
                   /\ failed = h.failedBefore

(* C31: whenever no message is being handled the counters balance,
   processed = succeeded + failed, and a handled message has added one to
   processed and one to exactly one of succeeded and failed, also when a
   queue operation raised during the handling *)
C31_CountersBalance ==
    /\ (~processing_message /\ pc # "crashed")
           => stats.processed = stats.succeeded + stats.failed
    /\ Handled
           => /\ stats.processed = h.statsBefore.processed + 1
              /\ \/ /\ stats.succeeded = h.statsBefore.succeeded + 1
                    /\ stats.failed = h.statsBefore.failed
                 \/ /\ stats.succeeded = h.statsBefore.succeeded
                    /\ stats.failed = h.statsBefore.failed + 1

(* C32: a message for which process_with_retry returned True is never
   pushed to the failed list, also when remove_from_processing raises after
   the success *)
C32_SuccessNotInFailed ==
    (Handled /\ h.result = "true")
        => /\ pushlog = h.logBefore
           /\ failed = h.failedBefore

(* C33: one handling pushes at most one entry to the failed list, also when
   a queue operation raises after the entry was pushed *)
C33_AtMostOneEntry ==
    Handled => Len(pushlog) <= Len(h.logBefore) + 1

(* C34: a payload popped from the primary queue never disappears without a
   trace: once the loop is back at its head, the payload popped last has
   either entered _process_message and been counted in processed, or an
   entry holding it has been pushed to the failed list; this includes a
   payload that is JSON null and a push to the failed list that raises *)
C34_PoppedIsTraced ==
    (h.raw # <<>> /\ pc \in {"loop", "exited"})
        => \/ h.began /\ stats.processed >= 1
           \/ \E i \in 1..Len(pushlog) :
                 pushlog[i] = RawEntry(h.raw, DecodeErrorText(h.raw))

(* C35: when a signal arrives while a message is in flight, the handler
   runs shutdown() on the thread that is handling the message, and the
   bookkeeping of that message (the branch on the result with its push to
   the failed list, and the removal from the processing list) is still done
   before shutdown() has closed the connection *)
C35_BookkeepingBeforeClose ==
    [][(/\ sd_caller = "signal" /\ sd.waited
        /\ pc = "result" /\ pc' = "loop")
           => (~sd.returned /\ closes = 0)]_vars

(* C36: once shutdown() has set running to false the consume loop starts
   no further pop and begins the handling of no new message, while the
   step that sets running to false leaves the message in flight where it
   is, and that message is not aborted *)
C36_NoNewWorkAfterShutdown ==
    [][pc' # "crashed" =>
         /\ ~running => queue' = queue
         /\ (~running /\ ~processing_message) => ~processing_message'
         /\ (processing_message /\ running /\ ~running')
                => (pc' = pc /\ message' = message /\ processing_message')
         /\ (processing_message /\ ~running /\ ~processing_message')
                => (h'.done /\ pc' = "loop")]_vars

(* C37: the attempts are bounded by the retry history of the message: a
   message that arrives with retryCount >= MAX_RETRIES is not given a
   further MAX_RETRIES attempts, and the retryCount stamped into a message
   never exceeds MAX_RETRIES *)
C37_HistoryBoundsAttempts ==
    /\ (/\ h.popped.t = "dict" /\ pc # "crashed"
        /\ Get(h.popped.d, "retryCount", 0) >= MAX_RETRIES)
           => h.calls < MAX_RETRIES
    /\ (message.t = "dict" /\ pc # "crashed")
           => Get(message.d, "retryCount", 0) <= MAX_RETRIES

(* the pages of the get_posts calls i..Len(log), one after the other *)
RECURSIVE PagesFrom(_, _)
PagesFrom(log, i) ==
    IF i > Len(log) THEN <<>> ELSE log[i].page \o PagesFrom(log, i + 1)

(* C38: get_all_posts asks for the first page with the empty cursor and for
   every later page with the id of the last post of the page before it; it
   never asks for a page after an empty one, returns as soon as a page is
   empty, and what it returns is the pages in the order they came; so it
   ends at the first empty page the remote returns *)
C38_CursorPagination ==
    /\ \A i \in 1..Len(page_log) :
          page_log[i].cursor =
             IF i = 1 THEN ""
             ELSE page_log[i - 1].page[Len(page_log[i - 1].page)].id
    /\ \A i \in 1..(Len(page_log) - 1) : page_log[i].page # <<>>
    /\ (Len(page_log) > 0 /\ page_log[Len(page_log)].page = <<>>)
          => page_pc = "returned"
    /\ page_pc = "returned"
          => /\ page_log[Len(page_log)].page = <<>>
             /\ all_posts = PagesFrom(page_log, 1)

C38_Witness ==
    /\ page_pc = "returned"
    /\ Len(page_log) = 3
    /\ page_log[2].cursor = "p1"
    /\ Len(page_log[1].page) = 2
    /\ Len(all_posts) = 3

(* the message popped last names a user id that no User row has *)
UnknownUser ==
    /\ h.popped.t = "dict"
    /\ Has(h.popped.d, "userId")
    /\ \A i \in 1..Len(user_table) :
          user_table[i].id # Get(h.popped.d, "userId", 0)

(* C39: a message whose userId matches no user is handled without a remote
   call and without a write: process_user is never entered, no post or
   statistics row is written and no token is stored; once it has been
   handed to process_with_retry and handled, it was attempted once, counted
   as succeeded and not as failed, and nothing was pushed to the failed
   list *)
C39_UnknownUserSucceeds ==
    (UnknownUser /\ pc # "crashed")
        => /\ uh = <<>> /\ chk = NoCheck /\ fetch_task = <<>>
           /\ runs = 0 /\ writes = 0
           /\ post_rows = OldPosts({1}) /\ user_table \in UserTables
           /\ (Handled /\ h.calls > 0)
                => /\ h.calls = 1 /\ h.sleeps = <<>>
                   /\ h.result = "true"
                   /\ stats.succeeded = h.statsBefore.succeeded + 1
                   /\ stats.failed = h.statsBefore.failed
                   /\ Len(pushlog) = Len(h.logBefore)
                   /\ Len(failed) = Len(h.failedBefore)

====
